---------------------------- MODULE Spec2Model ----------------------------
(***************************************************************************)
(* WordMesh backend: the word/sense aggregate (domain/word.rs), the text   *)
(* canonicalizer (util/canonical.rs), tag normalisation, the Neo4j graph   *)
(* repository (repository/graph.rs) and the PostgreSQL sense transactions  *)
(* (repository/word.rs).                                                   *)
(*                                                                         *)
(* Strings are sequences of one-character strings.  Each subsystem has its *)
(* own specification; the variables of the other subsystems stay idle.     *)
(***************************************************************************)
EXTENDS Integers, Sequences, FiniteSets, TLC

VARIABLES
    canonIn,      \* canonicalize: the input text
    canonOut,     \* canonicalize: the returned Result, or Pending
    keyOut,       \* CanonicalKey::new: the returned Result, or Pending
    tagsIn,       \* normalize_tags: the input Vec<String>
    tagsOut,      \* normalize_tags: the returned Result, or Pending
    senses,       \* UserWord.senses of the aggregate under test
    domCall,      \* the last method called on the aggregate, with its argument
    domRet,       \* what that call returned
    wordNodes,    \* graph: the Word nodes, each its property map
    senseNodes,   \* graph: the UserSense nodes, each its property map
    wwEdges,      \* graph: the WORD_TO_WORD relationships
    swEdges,      \* graph: the SENSE_TO_WORD relationships
    relCount,     \* graph: relationships created so far (ids and datetime())
    gRet,         \* graph: the last repository call and what it returned
    userSenses,   \* relational: the committed rows of user_senses, by id
    sqlWrites,    \* relational: per transaction, its uncommitted row versions
    sqlNextId,    \* relational: the next value of the user_senses id sequence
    txn,          \* relational: per transaction, the call it runs and where it is
    rwt,          \* graph: one run_with_timeout call, its phase and the time it has taken
    wordsTable,   \* relational: the committed rows of words, by id
    userWords,    \* relational: the committed rows of user_words, by id
    wordTx,       \* relational: the upsert_user_word transaction of each connection
    wordRet,      \* relational: the last word repository call and what it returned
    wordSeq,      \* relational: the id sequences of words and user_words, and the calls made
    svc           \* service: the WordService or SenseService call under way, and its locals

vars == <<canonIn, canonOut, keyOut, tagsIn, tagsOut, senses, domCall, domRet,
          wordNodes, senseNodes, wwEdges, swEdges, relCount, gRet,
          userSenses, sqlWrites, sqlNextId, txn,
          rwt,
          wordsTable, userWords, wordTx, wordRet, wordSeq,
          svc>>

Pending == [pending |-> TRUE]
NoCall == [op |-> "none"]
Unit == "()"
\* Option<T>: None is the empty sequence, Some(v) the sequence of v alone
None == <<>>
Some(v) == <<v>>

Ok(v) == [ok |-> TRUE, val |-> v]
Err(e) == [ok |-> FALSE, err |-> e]
ErrWith(e, v) == [ok |-> FALSE, err |-> e, val |-> v]

(***************************************************************************)
(* Characters and the str methods the code uses.                           *)
(***************************************************************************)
AsciiUpper ==
    <<"A","B","C","D","E","F","G","H","I","J","K","L","M",
      "N","O","P","Q","R","S","T","U","V","W","X","Y","Z">>
AsciiLower ==
    <<"a","b","c","d","e","f","g","h","i","j","k","l","m",
      "n","o","p","q","r","s","t","u","v","w","x","y","z">>
AsciiDigit == {"0","1","2","3","4","5","6","7","8","9"}

\* char::is_whitespace, and \s of the regex crate (both White_Space)
Whitespace == {" ", "\t", "\n", "\r", "\f"}

\* char::is_ascii_punctuation (the grave accent, which a string of this
\* language cannot hold, is left out; no text of the model contains it)
AsciiPunctuation ==
    {"!", "\"", "#", "$", "%", "&", "'", "(", ")", "*", "+", ",", "-", ".", "/",
     ":", ";", "<", "=", ">", "?", "@", "[", "\\", "]", "^", "_",
     "{", "|", "}", "~"}

Range(s) == {s[i] : i \in 1..Len(s)}
IsUpper(c) == c \in Range(AsciiUpper)

\* char lowercase mapping (ASCII letters; other characters of the model have none)
ToLowerChar(c) ==
    IF IsUpper(c) THEN AsciiLower[CHOOSE i \in 1..Len(AsciiUpper) : AsciiUpper[i] = c]
    ELSE c

\* str::to_lowercase / str::to_ascii_lowercase
ToLowercase(s) == [i \in 1..Len(s) |-> ToLowerChar(s[i])]

\* str::eq_ignore_ascii_case
EqIgnoreAsciiCase(s, t) == ToLowercase(s) = ToLowercase(t)

RECURSIVE TrimStartMatches(_, _)
TrimStartMatches(s, cs) ==
    IF s # <<>> /\ Head(s) \in cs THEN TrimStartMatches(Tail(s), cs) ELSE s

RECURSIVE TrimEndMatches(_, _)
TrimEndMatches(s, cs) ==
    IF s # <<>> /\ s[Len(s)] \in cs
    THEN TrimEndMatches(SubSeq(s, 1, Len(s) - 1), cs)
    ELSE s

\* str::trim_matches
TrimMatches(s, cs) == TrimEndMatches(TrimStartMatches(s, cs), cs)

\* str::trim
Trim(s) == TrimMatches(s, Whitespace)

\* str::replace: every space becomes a dash
ReplaceSpaceWithDash(s) == [i \in 1..Len(s) |-> IF s[i] = " " THEN "-" ELSE s[i]]

(***************************************************************************)
(* util/canonical.rs                                                       *)
(***************************************************************************)
\* MULTI_WHITESPACE.replace_all(text, " ") with the regex \s+
RECURSIVE MultiWhitespaceReplaceAll(_)
MultiWhitespaceReplaceAll(s) ==
    IF s = <<>> THEN <<>>
    ELSE IF Head(s) \in Whitespace
         THEN <<" ">> \o MultiWhitespaceReplaceAll(TrimStartMatches(Tail(s), Whitespace))
         ELSE <<Head(s)>> \o MultiWhitespaceReplaceAll(Tail(s))

\* a scan that pushes every dash it meets (last_dash is not consulted)
RECURSIVE CleanScanEveryDash(_, _, _)
CleanScanEveryDash(rest, cleaned, last_dash) ==
    IF rest = <<>> THEN cleaned
    ELSE LET ch == Head(rest) IN
         IF ch = "-" THEN CleanScanEveryDash(Tail(rest), Append(cleaned, "-"), TRUE)
         ELSE IF ch \in AsciiPunctuation
              THEN CleanScanEveryDash(Tail(rest), cleaned, last_dash)
              ELSE CleanScanEveryDash(Tail(rest), Append(cleaned, ch), FALSE)

\* the for loop of canonicalize over replaced.chars()
RECURSIVE CleanScan(_, _, _)
CleanScan(rest, cleaned, last_dash) ==
    IF rest = <<>> THEN cleaned
    ELSE LET ch == Head(rest) IN
         IF ch = "-"
         THEN IF ~last_dash
              THEN CleanScan(Tail(rest), Append(cleaned, "-"), TRUE)
              ELSE CleanScan(Tail(rest), cleaned, last_dash)
         ELSE IF ch \in AsciiPunctuation
              THEN CleanScan(Tail(rest), cleaned, last_dash)
              ELSE CleanScan(Tail(rest), Append(cleaned, ch), FALSE)

\* canonicalize without the to_lowercase step
canonicalizeKeepCase(input) ==
    LET trimmed == Trim(input) IN
    IF trimmed = <<>> THEN Err("Empty")
    ELSE LET collapsed == MultiWhitespaceReplaceAll(trimmed)
             stripped == Trim(TrimMatches(collapsed, AsciiPunctuation))
         IN  IF stripped = <<>> THEN Err("Empty")
             ELSE LET replaced == ReplaceSpaceWithDash(stripped)
                      cleaned == CleanScan(replaced, <<>>, FALSE)
                      normalized == TrimMatches(cleaned, {"-"})
                  IN  IF normalized = <<>> THEN Err("Empty") ELSE Ok(normalized)

canonicalize(input) ==
    LET trimmed == Trim(input) IN
    IF trimmed = <<>> THEN Err("Empty")
    ELSE LET collapsed == MultiWhitespaceReplaceAll(trimmed)
             stripped == Trim(TrimMatches(collapsed, AsciiPunctuation))
         IN  IF stripped = <<>> THEN Err("Empty")
             ELSE LET lowercase == ToLowercase(stripped)
                      replaced == ReplaceSpaceWithDash(lowercase)
                      cleaned == CleanScan(replaced, <<>>, FALSE)
                      normalized == TrimMatches(cleaned, {"-"})
                  IN  IF normalized = <<>> THEN Err("Empty") ELSE Ok(normalized)

(***************************************************************************)
(* domain/word.rs: normalize_tags (util/validation.rs holds the same code)  *)
(***************************************************************************)
MAX_TAGS == 20
MaxTagLen == 24

TagChars == Range(AsciiUpper) \cup Range(AsciiLower) \cup AsciiDigit \cup {"_", "-"}

\* TAG_REGEX.is_match: ^[A-Za-z0-9_-]{1,24}$
TagRegexIsMatch(t) ==
    /\ Len(t) >= 1
    /\ Len(t) <= MaxTagLen
    /\ \A i \in 1..Len(t) : t[i] \in TagChars

\* the for loop of normalize_tags, then the limit check after it
RECURSIVE NormalizeTagsLoop(_, _, _)
NormalizeTagsLoop(rest, seen, normalized) ==
    IF rest = <<>>
    THEN IF Len(normalized) > MAX_TAGS
         THEN ErrWith("TagLimitExceeded", Len(normalized))
         ELSE Ok(normalized)
    ELSE LET raw == Head(rest)
             trimmed == Trim(raw)
         IN  IF trimmed = <<>> THEN ErrWith("InvalidTag", raw)
             ELSE IF ~TagRegexIsMatch(trimmed) THEN ErrWith("InvalidTag", trimmed)
             ELSE LET key == ToLowercase(trimmed) IN
                  IF key \notin seen
                  THEN NormalizeTagsLoop(Tail(rest), seen \cup {key},
                                         Append(normalized, trimmed))
                  ELSE NormalizeTagsLoop(Tail(rest), seen, normalized)

\* normalize_tags with the limit applied to the length of the input
normalize_tagsLimitOnInput(tags) ==
    LET r == NormalizeTagsLoop(tags, {}, <<>>) IN
    IF r.ok /\ Len(tags) > MAX_TAGS THEN ErrWith("TagLimitExceeded", Len(tags)) ELSE r

normalize_tags(tags) == NormalizeTagsLoop(tags, {}, <<>>)

(***************************************************************************)
(* domain/word.rs: the UserWord aggregate.  A sense is the record          *)
(* [id, text, is_primary, sort_order]; id is an Option<i64>.  The note     *)
(* and created_at of a sense are read by none of these methods.            *)
(***************************************************************************)
\* i32::MIN
I32_MIN == -2147483647 - 1

\* UserWord::clear_primary
clear_primary(ss) == [i \in 1..Len(ss) |-> [ss[i] EXCEPT !.is_primary = FALSE]]

\* slice::sort_by_key(|s| s.sort_order): a stable sort, here by insertion
RECURSIVE InsertByKey(_, _)
InsertByKey(sorted, x) ==
    IF sorted = <<>> THEN <<x>>
    ELSE LET last == sorted[Len(sorted)] IN
         IF last.sort_order <= x.sort_order THEN Append(sorted, x)
         ELSE Append(InsertByKey(SubSeq(sorted, 1, Len(sorted) - 1), x), last)

\* a sort that puts a sense before the senses of equal sort_order
RECURSIVE InsertBeforeEqualKeys(_, _)
InsertBeforeEqualKeys(sorted, x) ==
    IF sorted = <<>> THEN <<x>>
    ELSE LET last == sorted[Len(sorted)] IN
         IF last.sort_order < x.sort_order THEN Append(sorted, x)
         ELSE Append(InsertBeforeEqualKeys(SubSeq(sorted, 1, Len(sorted) - 1), x), last)

RECURSIVE sort_by_keyUnstable(_)
sort_by_keyUnstable(ss) ==
    IF ss = <<>> THEN <<>>
    ELSE InsertBeforeEqualKeys(sort_by_keyUnstable(SubSeq(ss, 1, Len(ss) - 1)), ss[Len(ss)])

RECURSIVE sort_by_key(_)
sort_by_key(ss) ==
    IF ss = <<>> THEN <<>>
    ELSE InsertByKey(sort_by_key(SubSeq(ss, 1, Len(ss) - 1)), ss[Len(ss)])

\* add_sense with clear_primary run before the duplicate check
add_senseClearFirst(ss, sense) ==
    LET cleared == IF sense.is_primary THEN clear_primary(ss) ELSE ss IN
    IF \E i \in 1..Len(ss) : EqIgnoreAsciiCase(ss[i].text, sense.text)
    THEN [senses |-> cleared, ret |-> ErrWith("DuplicateSenseText", sense.text)]
    ELSE LET normalized == IF sense.sort_order = I32_MIN
                           THEN [sense EXCEPT !.sort_order = 0]
                           ELSE sense
         IN  [senses |-> sort_by_key(Append(cleared, normalized)), ret |-> Ok(Unit)]

\* UserWord::add_sense: the senses afterwards and the returned Result
add_sense(ss, sense) ==
    IF \E i \in 1..Len(ss) : EqIgnoreAsciiCase(ss[i].text, sense.text)
    THEN [senses |-> ss, ret |-> ErrWith("DuplicateSenseText", sense.text)]
    ELSE LET cleared == IF sense.is_primary THEN clear_primary(ss) ELSE ss
             normalized == IF sense.sort_order = I32_MIN
                           THEN [sense EXCEPT !.sort_order = 0]
                           ELSE sense
         IN  [senses |-> sort_by_key(Append(cleared, normalized)), ret |-> Ok(Unit)]

\* set_primary_by_id that marks the sense and leaves the others as they are
set_primary_by_idKeepOthers(ss, sense_id) ==
    LET found == \E i \in 1..Len(ss) : ss[i].id = Some(sense_id)
        marked == [i \in 1..Len(ss) |->
                      IF ss[i].id = Some(sense_id)
                      THEN [ss[i] EXCEPT !.is_primary = TRUE]
                      ELSE ss[i]]
    IN  [senses |-> marked,
         ret |-> IF ~found THEN ErrWith("SenseNotFound", sense_id) ELSE Ok(Unit)]

\* UserWord::set_primary_by_id
set_primary_by_id(ss, sense_id) ==
    LET found == \E i \in 1..Len(ss) : ss[i].id = Some(sense_id)
        marked == [i \in 1..Len(ss) |->
                      [ss[i] EXCEPT !.is_primary = (ss[i].id = Some(sense_id))]]
    IN  [senses |-> marked,
         ret |-> IF ~found THEN ErrWith("SenseNotFound", sense_id) ELSE Ok(Unit)]

\* UserWord::set_primary_by_index; index counts from 0
set_primary_by_index(ss, index) ==
    IF index >= Len(ss)
    THEN [senses |-> ss, ret |-> ErrWith("SenseIndexOutOfBounds", index)]
    ELSE [senses |-> [i \in 1..Len(ss) |-> [ss[i] EXCEPT !.is_primary = (i - 1 = index)]],
          ret |-> Ok(Unit)]

\* UserWord::remove_sense_by_id
remove_sense_by_id(ss, sense_id) ==
    IF \E i \in 1..Len(ss) : ss[i].id = Some(sense_id)
    THEN LET pos == CHOOSE i \in 1..Len(ss) :
                        /\ ss[i].id = Some(sense_id)
                        /\ \A j \in 1..(i - 1) : ss[j].id # Some(sense_id)
         IN  [senses |-> SubSeq(ss, 1, pos - 1) \o SubSeq(ss, pos + 1, Len(ss)),
              ret |-> Ok(ss[pos])]
    ELSE [senses |-> ss, ret |-> ErrWith("SenseNotFound", sense_id)]

(***************************************************************************)
(* repository/graph.rs: Neo4jGraphRepository over a graph store that       *)
(* answers every query (run_with_timeout returns all rows of the query).   *)
(* A node is the map of its properties; a relationship is a record of its  *)
(* id, its start and end node and its properties.                          *)
(***************************************************************************)
WordLinkKinds == {"similar_form", "root_affix"}
SenseWordLinkKinds == {"synonym", "antonym", "related"}

Has(props, key) == key \in DOMAIN props

\* sort_word_ids without the swap of a larger first id
sort_word_idsNoSwap(word_a_id, word_b_id) ==
    IF word_a_id = word_b_id THEN Err("SelfForbidden")
    ELSE Ok(<<word_a_id, word_b_id>>)

\* sort_word_ids without the self check
sort_word_idsNoSelfCheck(word_a_id, word_b_id) ==
    IF word_a_id <= word_b_id THEN Ok(<<word_a_id, word_b_id>>)
    ELSE Ok(<<word_b_id, word_a_id>>)

\* Neo4jGraphRepository::sort_word_ids
sort_word_ids(word_a_id, word_b_id) ==
    IF word_a_id = word_b_id THEN Err("SelfForbidden")
    ELSE IF word_a_id < word_b_id THEN Ok(<<word_a_id, word_b_id>>)
    ELSE Ok(<<word_b_id, word_a_id>>)

\* MERGE (:Word { word_id: $word_id })
MergeWordNode(nodes, word_id) ==
    IF \E n \in nodes : n.word_id = word_id THEN nodes
    ELSE nodes \cup {[word_id |-> word_id]}

\* MERGE (:UserSense { sense_id: $sense_id, user_id: $user_id })
MergeSenseNode(nodes, sense_id, user_id) ==
    IF \E n \in nodes : n.sense_id = sense_id /\ n.user_id = user_id THEN nodes
    ELSE nodes \cup {[sense_id |-> sense_id, user_id |-> user_id]}

\* (a:Word {word_id: $min_id})-[r:WORD_TO_WORD {user_id, kind}]->(b:Word {word_id: $max_id})
MatchWordLink(edges, min_id, max_id, user_id, kind) ==
    {r \in edges : /\ r.start.word_id = min_id
                   /\ r.end.word_id = max_id
                   /\ r.user_id = user_id
                   /\ r.kind = kind}

\* (sense:UserSense {sense_id, user_id})-[rel:SENSE_TO_WORD {kind}]->(word:Word {word_id})
MatchSenseWordLink(edges, sense_id, user_id, target_word_id, kind) ==
    {r \in edges : /\ r.start.sense_id = sense_id
                   /\ r.start.user_id = user_id
                   /\ r.end.word_id = target_word_id
                   /\ r.kind = kind}

\* ON MATCH SET r.note = $note, whatever the note
OnMatchSetNoteAlways(r, note) == [r EXCEPT !.note = note]

\* ON MATCH SET r.note = CASE WHEN $note IS NULL THEN r.note ELSE $note END
OnMatchSetNote(r, note) == [r EXCEPT !.note = IF note = None THEN r.note ELSE note]

\* ON CREATE SET r.created_at = datetime(), r.note = $note
NewRelationship(start, end, user_id, kind, note) ==
    [id |-> relCount + 1, start |-> start, end |-> end, user_id |-> user_id,
     kind |-> kind, note |-> note, created_at |-> relCount + 1]

WordLinkRow(r) == [word_a |-> r.start, word_b |-> r.end, rel |-> r]
SenseWordLinkRow(r) == [sense |-> r.start, word |-> r.end, rel |-> r]

\* Neo4jGraphRepository::parse_word_link
parse_word_link(row) ==
    IF ~Has(row.word_a, "word_id") \/ ~Has(row.word_b, "word_id")
    THEN Err("InvalidData")
    ELSE Ok([link_id |-> row.rel.id,
             user_id |-> row.rel.user_id,
             kind |-> row.rel.kind,
             note |-> row.rel.note,
             created_at |-> row.rel.created_at,
             word_a_id |-> row.word_a.word_id,
             word_b_id |-> row.word_b.word_id])

\* Neo4jGraphRepository::parse_sense_word_link: user_id, sense_id and the source
\* word id are read from the sense node, the target word id from the word node
parse_sense_word_link(row) ==
    IF \/ ~Has(row.sense, "user_id")
       \/ ~Has(row.sense, "sense_id")
       \/ ~Has(row.sense, "word_id")
       \/ ~Has(row.word, "word_id")
    THEN Err("InvalidData")
    ELSE Ok([link_id |-> row.rel.id,
             user_id |-> row.sense.user_id,
             kind |-> row.rel.kind,
             note |-> row.rel.note,
             created_at |-> row.rel.created_at,
             sense_id |-> row.sense.sense_id,
             source_word_id |-> row.sense.word_id,
             target_word_id |-> row.word.word_id])

\* ORDER BY rel.created_at DESC
RECURSIVE OrderByCreatedAtDesc(_)
OrderByCreatedAtDesc(rels) ==
    IF rels = {} THEN <<>>
    ELSE LET newest == CHOOSE r \in rels : \A q \in rels : q.created_at <= r.created_at
         IN  <<newest>> \o OrderByCreatedAtDesc(rels \ {newest})

\* SKIP $offset LIMIT $limit
SkipLimit(rows, offset, limit) ==
    SubSeq(rows, offset + 1, IF offset + limit < Len(rows) THEN offset + limit ELSE Len(rows))

\* rows.into_iter().map(parse).collect(): the first Err, or all the records
RECURSIVE CollectParsed(_, _)
CollectParsed(parsed, acc) ==
    IF parsed = <<>> THEN Ok(acc)
    ELSE IF ~Head(parsed).ok THEN Head(parsed)
    ELSE CollectParsed(Tail(parsed), Append(acc, Head(parsed).val))

\* the kinds a list query asks for: the given one, or all of them
KindsOf(kind, all) == IF kind = None THEN all ELSE {kind[1]}

\* the MATCH of list_word_links:
\* (word_a:Word {word_id: $word_id})-[rel:WORD_TO_WORD {user_id: $user_id}]->(word_b:Word)
ListWordLinksMatch(filter) ==
    {r \in wwEdges : /\ r.start.word_id = filter.word_id
                     /\ r.user_id = filter.user_id
                     /\ r.kind \in KindsOf(filter.kind, WordLinkKinds)}

\* list_word_links: the returned Result
list_word_links(filter) ==
    LET rows == SkipLimit(OrderByCreatedAtDesc(ListWordLinksMatch(filter)),
                          filter.offset, filter.limit)
    IN  CollectParsed([i \in 1..Len(rows) |-> parse_word_link(WordLinkRow(rows[i]))], <<>>)

\* the MATCH of list_sense_word_links
ListSenseWordLinksMatch(filter) ==
    {r \in swEdges : /\ r.start.sense_id = filter.sense_id
                     /\ r.start.user_id = filter.user_id
                     /\ r.kind \in KindsOf(filter.kind, SenseWordLinkKinds)}

\* list_sense_word_links: the returned Result
list_sense_word_links(filter) ==
    LET rows == SkipLimit(OrderByCreatedAtDesc(ListSenseWordLinksMatch(filter)),
                          filter.offset, filter.limit)
    IN  CollectParsed([i \in 1..Len(rows) |->
                          parse_sense_word_link(SenseWordLinkRow(rows[i]))], <<>>)

\* the characters canonicalize is explored over: lower and upper letters, space,
\* another whitespace character, the dash, and another ASCII punctuation character
CanonAlphabet == {"a", "A", " ", "\t", "-", "!"}
MaxTextLen == 6

RECURSIVE TextsUpTo(_, _)
TextsUpTo(alphabet, n) ==
    IF n = 0 THEN {<<>>}
    ELSE LET shorter == TextsUpTo(alphabet, n - 1)
         IN  shorter \cup {Append(s, c) : s \in shorter, c \in alphabet}

TagsIdle == tagsIn = <<>> /\ tagsOut = Pending
CanonIdle == canonIn = <<>> /\ canonOut = Pending /\ keyOut = Pending
DomainIdle == senses = <<>> /\ domCall = NoCall /\ domRet = Pending
GraphIdle ==
    /\ wordNodes = {} /\ senseNodes = {} /\ wwEdges = {} /\ swEdges = {}
    /\ relCount = 0 /\ gRet = NoCall

TagsVars == <<tagsIn, tagsOut>>
CanonVars == <<canonIn, canonOut, keyOut>>
DomainVars == <<senses, domCall, domRet>>
GraphVars == <<wordNodes, senseNodes, wwEdges, swEdges, relCount, gRet>>
SqlIdle == userSenses = <<>> /\ sqlWrites = <<>> /\ sqlNextId = 1 /\ txn = <<>>
SqlVars == <<userSenses, sqlWrites, sqlNextId, txn>>
RwtIdle == rwt = [pc |-> "idle"]
RwtVars == <<rwt>>
WordIdle ==
    /\ wordsTable = <<>> /\ userWords = <<>> /\ wordTx = <<>> /\ wordRet = NoCall
    /\ wordSeq = <<>>
WordVars == <<wordsTable, userWords, wordTx, wordRet, wordSeq>>
SvcIdle == svc = [pc |-> "idle"]
SvcVars == <<svc>>

CanonInit ==
    /\ canonIn \in TextsUpTo(CanonAlphabet, MaxTextLen)
    /\ canonOut = Pending
    /\ keyOut = Pending
    /\ TagsIdle
    /\ DomainIdle
    /\ GraphIdle
    /\ SqlIdle
    /\ RwtIdle
    /\ WordIdle
    /\ SvcIdle

CanonicalizeCall ==
    /\ canonOut = Pending
    /\ canonOut' = canonicalize(canonIn)
    /\ UNCHANGED <<canonIn, keyOut>>
    /\ UNCHANGED <<TagsVars, DomainVars, GraphVars, SqlVars, RwtVars, WordVars, SvcVars>>

CanonNext == CanonicalizeCall

CanonSpec == CanonInit /\ [][CanonNext]_vars

(***************************************************************************)
(* normalize_tags: the tag lists it is explored over                       *)
(***************************************************************************)
\* entries of a list that are not first occurrences of a new tag
MaxExtraTags == 2
MaxFreshTags == MAX_TAGS + 1

Digits == <<"0", "1", "2", "3", "4", "5", "6", "7", "8", "9">>
Pad(t) == <<" ">> \o t \o <<" ">>

\* the n-th distinct tag: a letter and a digit; odd ones start with an
\* upper-case letter, every third one is written with surrounding spaces
FreshTag(n) ==
    LET letter == IF n % 2 = 1 THEN AsciiUpper[(n \div 10) + 1]
                  ELSE AsciiLower[(n \div 10) + 1]
        t == <<letter, Digits[(n % 10) + 1]>>
    IN  IF n % 3 = 0 THEN Pad(t) ELSE t

\* the first tag again, in the other case and padded
DuplicateTag == Pad(ToLowercase(Trim(FreshTag(1))))
BlankTag == <<" ", "\t">>
BadPatternTag == <<"b", "a", "d", " ", "t", "a", "g">>

FreshCount(tags) == Cardinality({n \in 1..MaxFreshTags : FreshTag(n) \in Range(tags)})
ExtraCount(tags) == Len(tags) - FreshCount(tags)

TagsInit ==
    /\ tagsIn = <<>>
    /\ tagsOut = Pending
    /\ CanonIdle
    /\ DomainIdle
    /\ GraphIdle
    /\ SqlIdle
    /\ RwtIdle
    /\ WordIdle
    /\ SvcIdle

TagsPush(t) ==
    /\ tagsOut = Pending
    /\ tagsIn' = Append(tagsIn, t)
    /\ UNCHANGED tagsOut
    /\ UNCHANGED <<CanonVars, DomainVars, GraphVars, SqlVars, RwtVars, WordVars, SvcVars>>

TagsPushFresh ==
    /\ FreshCount(tagsIn) < MaxFreshTags
    /\ TagsPush(FreshTag(FreshCount(tagsIn) + 1))

TagsPushDuplicate ==
    /\ FreshCount(tagsIn) >= 1
    /\ ExtraCount(tagsIn) < MaxExtraTags
    /\ TagsPush(DuplicateTag)

TagsPushBlank ==
    /\ ExtraCount(tagsIn) < MaxExtraTags
    /\ TagsPush(BlankTag)

TagsPushBadPattern ==
    /\ ExtraCount(tagsIn) < MaxExtraTags
    /\ TagsPush(BadPatternTag)

NormalizeTagsCall ==
    /\ tagsOut = Pending
    /\ tagsOut' = normalize_tags(tagsIn)
    /\ UNCHANGED tagsIn
    /\ UNCHANGED <<CanonVars, DomainVars, GraphVars, SqlVars, RwtVars, WordVars, SvcVars>>

TagsNext ==
    \/ TagsPushFresh
    \/ TagsPushDuplicate
    \/ TagsPushBlank
    \/ TagsPushBadPattern
    \/ NormalizeTagsCall

TagsSpec == TagsInit /\ [][TagsNext]_vars


(***************************************************************************)
(* The aggregate: UserWord::create, then any calls of its methods           *)
(***************************************************************************)
MaxSenseId == 2

\* two texts that differ only in case, and a third: an aggregate holds at most
\* two senses over them, add_sense rejecting the rest
SenseTexts == {<<"a">>, <<"A">>, <<"b">>}
OptionIds == {None} \cup {Some(i) : i \in 1..MaxSenseId}
SortOrders == {I32_MIN, 0, 1}

\* the values UserSense::new, UserSense::from_parts and the pub fields allow
SenseValues ==
    [id : OptionIds, text : SenseTexts, is_primary : BOOLEAN, sort_order : SortOrders]

\* UserWord::create: no senses
Init ==
    /\ senses = <<>>
    /\ domCall = NoCall
    /\ domRet = Pending
    /\ CanonIdle
    /\ TagsIdle
    /\ GraphIdle
    /\ SqlIdle
    /\ RwtIdle
    /\ WordIdle
    /\ SvcIdle

Returns(call, r) ==
    /\ senses' = r.senses
    /\ domRet' = r.ret
    /\ domCall' = call
    /\ UNCHANGED <<CanonVars, TagsVars, GraphVars, SqlVars, RwtVars, WordVars, SvcVars>>

AddSense ==
    \E sense \in SenseValues :
        Returns([op |-> "add_sense", arg |-> sense], add_sense(senses, sense))

SetPrimaryById ==
    \E sense_id \in 1..MaxSenseId :
        Returns([op |-> "set_primary_by_id", arg |-> sense_id],
                set_primary_by_id(senses, sense_id))

SetPrimaryByIndex ==
    \E index \in 0..(Len(senses) + 1) :
        Returns([op |-> "set_primary_by_index", arg |-> index],
                set_primary_by_index(senses, index))

RemoveSenseById ==
    \E sense_id \in 1..MaxSenseId :
        Returns([op |-> "remove_sense_by_id", arg |-> sense_id],
                remove_sense_by_id(senses, sense_id))

Next ==
    \/ AddSense
    \/ SetPrimaryById
    \/ SetPrimaryByIndex
    \/ RemoveSenseById

Spec == Init /\ [][Next]_vars

(***************************************************************************)
(* The graph repository: each call of the GraphRepository trait is one     *)
(* action.  A call is computed as the set of outcomes it can have on the   *)
(* current graph (the graph after the query and the returned Result); the  *)
(* action takes one of them.  Instants of datetime() are distinct and      *)
(* increase with the relationships created.                                *)
(***************************************************************************)
MaxRels == 2
GUsers == {1, 2}
GWords == {1, 2, 3}
GFewWords == {1, 2}
GSenses == {1}
GNotes == {None, Some("n")}
GOffsets == {0, 1}
GLimits == {1, MaxRels + 1}

WordNode(word_id) == CHOOSE n \in MergeWordNode(wordNodes, word_id) : n.word_id = word_id
SenseNode(sense_id, user_id) ==
    CHOOSE n \in MergeSenseNode(senseNodes, sense_id, user_id) :
        n.sense_id = sense_id /\ n.user_id = user_id

GraphOutcome(words, sns, ww, sw, count, ret) ==
    [wordNodes |-> words, senseNodes |-> sns, wwEdges |-> ww, swEdges |-> sw,
     relCount |-> count, ret |-> ret]

GraphUntouched(ret) == GraphOutcome(wordNodes, senseNodes, wwEdges, swEdges, relCount, ret)

\* Neo4jGraphRepository::create_word_link
create_word_link(user_id, word_a_id, word_b_id, kind, note) ==
    LET sorted == sort_word_ids(word_a_id, word_b_id) IN
    IF ~sorted.ok THEN {GraphUntouched(sorted)}
    ELSE
        LET min_id  == sorted.val[1]
            max_id  == sorted.val[2]
            nodes   == MergeWordNode(MergeWordNode(wordNodes, min_id), max_id)
            matched == MatchWordLink(wwEdges, min_id, max_id, user_id, kind)
            rels    == IF matched = {}
                       THEN {NewRelationship(WordNode(min_id), WordNode(max_id),
                                             user_id, kind, note)}
                       ELSE {OnMatchSetNote(r, note) : r \in matched}
            count   == IF matched = {} THEN relCount + 1 ELSE relCount
            Record(r) ==
                LET parsed == parse_word_link(WordLinkRow(r)) IN
                IF ~parsed.ok THEN parsed
                ELSE Ok([parsed.val EXCEPT !.word_a_id = word_a_id,
                                           !.word_b_id = word_b_id])
        IN  {GraphOutcome(nodes, senseNodes, (wwEdges \ matched) \cup rels, swEdges,
                          count, Record(r)) : r \in rels}

\* delete_word_link whose pattern does not carry the user
delete_word_linkAnyUser(user_id, word_a_id, word_b_id, kind) ==
    LET sorted == sort_word_ids(word_a_id, word_b_id) IN
    IF ~sorted.ok THEN GraphUntouched(sorted)
    ELSE GraphOutcome(wordNodes, senseNodes,
                      {r \in wwEdges : ~(/\ r.start.word_id = sorted.val[1]
                                         /\ r.end.word_id = sorted.val[2]
                                         /\ r.kind = kind)},
                      swEdges, relCount, Ok(Unit))

\* Neo4jGraphRepository::delete_word_link
delete_word_link(user_id, word_a_id, word_b_id, kind) ==
    LET sorted == sort_word_ids(word_a_id, word_b_id) IN
    IF ~sorted.ok THEN GraphUntouched(sorted)
    ELSE GraphOutcome(wordNodes, senseNodes,
                      wwEdges \ MatchWordLink(wwEdges, sorted.val[1], sorted.val[2],
                                              user_id, kind),
                      swEdges, relCount, Ok(Unit))

\* Neo4jGraphRepository::create_sense_word_link
create_sense_word_link(user_id, sense_id, source_word_id, target_word_id, kind, note) ==
    IF source_word_id = target_word_id THEN {GraphUntouched(Err("SelfForbidden"))}
    ELSE
        LET sns     == MergeSenseNode(senseNodes, sense_id, user_id)
            nodes   == MergeWordNode(wordNodes, target_word_id)
            matched == {r \in MatchSenseWordLink(swEdges, sense_id, user_id,
                                                 target_word_id, kind) :
                            r.user_id = user_id}
            rels    == IF matched = {}
                       THEN {NewRelationship(SenseNode(sense_id, user_id),
                                             WordNode(target_word_id),
                                             user_id, kind, note)}
                       ELSE {OnMatchSetNote(r, note) : r \in matched}
            count   == IF matched = {} THEN relCount + 1 ELSE relCount
            Record(r) ==
                LET parsed == parse_sense_word_link(SenseWordLinkRow(r)) IN
                IF ~parsed.ok THEN parsed
                ELSE Ok([parsed.val EXCEPT !.source_word_id = source_word_id])
        IN  {GraphOutcome(nodes, sns, wwEdges, (swEdges \ matched) \cup rels,
                          count, Record(r)) : r \in rels}

\* Neo4jGraphRepository::delete_sense_word_link
delete_sense_word_link(user_id, sense_id, target_word_id, kind) ==
    GraphOutcome(wordNodes, senseNodes, wwEdges,
                 swEdges \ MatchSenseWordLink(swEdges, sense_id, user_id,
                                              target_word_id, kind),
                 relCount, Ok(Unit))

\* Neo4jGraphRepository::remove_links_for_sense
remove_links_for_sense(sense_id) ==
    GraphOutcome(wordNodes, senseNodes, wwEdges,
                 {r \in swEdges : r.start.sense_id # sense_id},
                 relCount, Ok(Unit))

\* Neo4jGraphRepository::upsert_node_word
upsert_node_word(word_id) ==
    GraphOutcome(MergeWordNode(wordNodes, word_id), senseNodes, wwEdges, swEdges,
                 relCount, Ok(Unit))

\* Neo4jGraphRepository::upsert_node_sense
upsert_node_sense(sense_id, user_id) ==
    GraphOutcome(wordNodes, MergeSenseNode(senseNodes, sense_id, user_id), wwEdges,
                 swEdges, relCount, Ok(Unit))

GraphInit ==
    /\ wordNodes = {}
    /\ senseNodes = {}
    /\ wwEdges = {}
    /\ swEdges = {}
    /\ relCount = 0
    /\ gRet = NoCall
    /\ CanonIdle
    /\ TagsIdle
    /\ DomainIdle
    /\ SqlIdle
    /\ RwtIdle
    /\ WordIdle
    /\ SvcIdle

\* the call named op ends in outcome o
GraphReturns(op, o) ==
    /\ o.relCount <= MaxRels
    /\ wordNodes' = o.wordNodes
    /\ senseNodes' = o.senseNodes
    /\ wwEdges' = o.wwEdges
    /\ swEdges' = o.swEdges
    /\ relCount' = o.relCount
    /\ gRet' = [op |-> op, res |-> o.ret]
    /\ UNCHANGED <<CanonVars, TagsVars, DomainVars, SqlVars, RwtVars, WordVars, SvcVars>>

CreateWordLink(user_id, word_a_id, word_b_id, kind, note) ==
    \E o \in create_word_link(user_id, word_a_id, word_b_id, kind, note) :
        GraphReturns("create_word_link", o)

DeleteWordLink(user_id, word_a_id, word_b_id, kind) ==
    GraphReturns("delete_word_link", delete_word_link(user_id, word_a_id, word_b_id, kind))

ListWordLinks(filter) ==
    GraphReturns("list_word_links", GraphUntouched(list_word_links(filter)))

CreateSenseWordLink(user_id, sense_id, source_word_id, target_word_id, kind, note) ==
    \E o \in create_sense_word_link(user_id, sense_id, source_word_id, target_word_id,
                                    kind, note) :
        GraphReturns("create_sense_word_link", o)

DeleteSenseWordLink(user_id, sense_id, target_word_id, kind) ==
    GraphReturns("delete_sense_word_link",
                 delete_sense_word_link(user_id, sense_id, target_word_id, kind))

ListSenseWordLinks(filter) ==
    GraphReturns("list_sense_word_links", GraphUntouched(list_sense_word_links(filter)))

RemoveLinksForSense(sense_id) ==
    GraphReturns("remove_links_for_sense", remove_links_for_sense(sense_id))

UpsertNodeWord(word_id) ==
    GraphReturns("upsert_node_word", upsert_node_word(word_id))

UpsertNodeSense(sense_id, user_id) ==
    GraphReturns("upsert_node_sense", upsert_node_sense(sense_id, user_id))

WordLinkFilters(words) ==
    [user_id : GUsers, kind : {None} \cup {Some(k) : k \in WordLinkKinds},
     word_id : words, limit : GLimits, offset : GOffsets]

SenseLinkFilters ==
    [user_id : GUsers, sense_id : GSenses,
     kind : {None} \cup {Some(k) : k \in SenseWordLinkKinds},
     limit : GLimits, offset : GOffsets]

\* the word-to-word half of the repository alone, over three words
WordLinkNext ==
    \/ \E u \in GUsers, a \in GWords, b \in GWords, k \in WordLinkKinds, n \in GNotes :
           CreateWordLink(u, a, b, k, n)
    \/ \E u \in GUsers, a \in GWords, b \in GWords, k \in WordLinkKinds :
           DeleteWordLink(u, a, b, k)
    \/ \E filter \in WordLinkFilters(GWords) : ListWordLinks(filter)
    \/ \E w \in GWords : UpsertNodeWord(w)

WordLinkSpec == GraphInit /\ [][WordLinkNext]_vars

\* create_word_link and delete_word_link alone, over three words
WordLinkWriteNext ==
    \/ \E u \in GUsers, a \in GWords, b \in GWords, k \in WordLinkKinds, n \in GNotes :
           CreateWordLink(u, a, b, k, n)
    \/ \E u \in GUsers, a \in GWords, b \in GWords, k \in WordLinkKinds :
           DeleteWordLink(u, a, b, k)

WordLinkWriteSpec == GraphInit /\ [][WordLinkWriteNext]_vars

\* the calls that create and delete links of either type, over two words
LinkWriteNext ==
    \/ \E u \in GUsers, a \in GFewWords, b \in GFewWords, k \in WordLinkKinds,
          n \in GNotes :
           CreateWordLink(u, a, b, k, n)
    \/ \E u \in GUsers, a \in GFewWords, b \in GFewWords, k \in WordLinkKinds :
           DeleteWordLink(u, a, b, k)
    \/ \E u \in GUsers, s \in GSenses, src \in GFewWords, t \in GFewWords,
          k \in SenseWordLinkKinds, n \in GNotes :
           CreateSenseWordLink(u, s, src, t, k, n)
    \/ \E u \in GUsers, s \in GSenses, t \in GFewWords, k \in SenseWordLinkKinds :
           DeleteSenseWordLink(u, s, t, k)
    \/ \E s \in GSenses : RemoveLinksForSense(s)

LinkWriteSpec == GraphInit /\ [][LinkWriteNext]_vars

\* the two create calls of one user over two words, with notes that differ
LinkNotes == {None, Some("n"), Some("m")}

LinkNoteNext ==
    \/ \E u \in {1}, a \in GFewWords, b \in GFewWords, k \in WordLinkKinds,
          n \in LinkNotes :
           CreateWordLink(u, a, b, k, n)
    \/ \E u \in {1}, s \in GSenses, src \in GFewWords, t \in GFewWords,
          k \in SenseWordLinkKinds, n \in LinkNotes :
           CreateSenseWordLink(u, s, src, t, k, n)

LinkNoteSpec == GraphInit /\ [][LinkNoteNext]_vars

\* every call of the repository, over two words
GraphNext ==
    \/ \E u \in GUsers, a \in GFewWords, b \in GFewWords, k \in WordLinkKinds,
          n \in GNotes :
           CreateWordLink(u, a, b, k, n)
    \/ \E u \in GUsers, a \in GFewWords, b \in GFewWords, k \in WordLinkKinds :
           DeleteWordLink(u, a, b, k)
    \/ \E filter \in WordLinkFilters(GFewWords) : ListWordLinks(filter)
    \/ \E u \in GUsers, s \in GSenses, src \in GFewWords, t \in GFewWords,
          k \in SenseWordLinkKinds, n \in GNotes :
           CreateSenseWordLink(u, s, src, t, k, n)
    \/ \E u \in GUsers, s \in GSenses, t \in GFewWords, k \in SenseWordLinkKinds :
           DeleteSenseWordLink(u, s, t, k)
    \/ \E filter \in SenseLinkFilters : ListSenseWordLinks(filter)
    \/ \E s \in GSenses : RemoveLinksForSense(s)
    \/ \E w \in GFewWords : UpsertNodeWord(w)
    \/ \E s \in GSenses, u \in GUsers : UpsertNodeSense(s, u)

GraphSpec == GraphInit /\ [][GraphNext]_vars

(***************************************************************************)
(* repository/word.rs: the sense transactions of PgWordRepository.  Two    *)
(* connections of the pool each run one call.  The store is PostgreSQL at  *)
(* its default isolation level, READ COMMITTED, which the repository never *)
(* changes: a statement sees the rows committed when it starts and the     *)
(* writes of its own transaction; a row written by a transaction is locked *)
(* until that transaction ends, an UPDATE waits for the lock of a row it   *)
(* selected and then writes the newest committed version of the row; two   *)
(* transactions that wait for each other are resolved by aborting one.     *)
(***************************************************************************)
SqlTxns == {1, 2}
SqlUsers == {1, 2}
SqlUserWords == {1}

\* user_words: the user word belongs to the first user
UserWordOwner(user_word_id) == CHOOSE u \in SqlUsers : u = user_word_id

EmptyRows == [id \in {} |-> {}]

Overlay(f, g) ==
    [id \in DOMAIN f \cup DOMAIN g |-> IF id \in DOMAIN f THEN f[id] ELSE g[id]]

\* the rows a statement of transaction t sees when it starts
Visible(t) == Overlay(sqlWrites[t], userSenses)

LockedByOther(t, id) == \E o \in SqlTxns \ {t} : id \in DOMAIN sqlWrites[o]

\* UserSense::from_parts on a row of user_senses
SenseFromRow(id, row) ==
    [id |-> Some(id), text |-> row.text, is_primary |-> row.is_primary,
     sort_order |-> row.sort_order, note |-> row.note]

\* the setters update_user_sense applies for the fields the update carries
ApplySenseUpdate(sense, update) ==
    [sense EXCEPT
        !.text = IF update.text = None THEN @ ELSE update.text[1],
        !.sort_order = IF update.sort_order = None THEN @ ELSE update.sort_order[1],
        !.note = IF update.note = None THEN @ ELSE update.note[1],
        !.is_primary = IF update.is_primary = None THEN @ ELSE update.is_primary[1]]

\* the row ids the statement transaction t is executing still has to lock
WaitsFor(t) ==
    IF txn[t].pc = "update" THEN {txn[t].sense_id}
    ELSE IF txn[t].pc = "demoting" THEN txn[t].todo
    ELSE {}

Finished(call, ret) == [pc |-> "done", call |-> call, ret |-> ret]

SqlFrame == UNCHANGED <<CanonVars, TagsVars, DomainVars, GraphVars, RwtVars, WordVars, SvcVars>>

\* add_user_sense: begin and the INSERT ... RETURNING
AddUserSenseInsert(t, sense) ==
    /\ txn[t].pc = "idle"
    /\ LET row == [user_word_id |-> sense.user_word_id, text |-> sense.text,
                   is_primary |-> sense.is_primary, sort_order |-> sense.sort_order,
                   note |-> sense.note]
           created == SenseFromRow(sqlNextId, row)
       IN  /\ sqlWrites' = [sqlWrites EXCEPT ![t] = Overlay([id \in {sqlNextId} |-> row], @)]
           /\ sqlNextId' = sqlNextId + 1
           /\ txn' = [txn EXCEPT ![t] =
                         [pc |-> IF created.is_primary THEN "demote" ELSE "commit",
                          call |-> [op |-> "add_user_sense", sense |-> sense],
                          sense_id |-> sqlNextId,
                          user_word_id |-> sense.user_word_id,
                          result |-> created,
                          todo |-> {}]]
    /\ UNCHANGED userSenses
    /\ SqlFrame

\* update_user_sense whose SELECT is not joined on the owner
UpdateUserSenseSelectAnyUser(t, user_id, sense_id, update) ==
    /\ txn[t].pc = "idle"
    /\ LET call == [op |-> "update_user_sense", user_id |-> user_id,
                    sense_id |-> sense_id, update |-> update]
           rows == Visible(t)
       IN  IF sense_id \in DOMAIN rows
           THEN txn' = [txn EXCEPT ![t] =
                           [pc |-> "update",
                            call |-> call,
                            sense_id |-> sense_id,
                            user_word_id |-> rows[sense_id].user_word_id,
                            result |-> ApplySenseUpdate(SenseFromRow(sense_id, rows[sense_id]),
                                                        update),
                            todo |-> {}]]
           ELSE txn' = [txn EXCEPT ![t] = Finished(call, Err("Database"))]
    /\ UNCHANGED <<userSenses, sqlWrites, sqlNextId>>
    /\ SqlFrame

\* update_user_sense: begin, the SELECT joined on the owner and the setters
UpdateUserSenseSelect(t, user_id, sense_id, update) ==
    /\ txn[t].pc = "idle"
    /\ LET call == [op |-> "update_user_sense", user_id |-> user_id,
                    sense_id |-> sense_id, update |-> update]
           rows == Visible(t)
       IN  IF /\ sense_id \in DOMAIN rows
              /\ UserWordOwner(rows[sense_id].user_word_id) = user_id
           THEN txn' = [txn EXCEPT ![t] =
                           [pc |-> "update",
                            call |-> call,
                            sense_id |-> sense_id,
                            user_word_id |-> rows[sense_id].user_word_id,
                            result |-> ApplySenseUpdate(SenseFromRow(sense_id, rows[sense_id]),
                                                        update),
                            todo |-> {}]]
           ELSE txn' = [txn EXCEPT ![t] = Finished(call, Err("Database"))]
    /\ UNCHANGED <<userSenses, sqlWrites, sqlNextId>>
    /\ SqlFrame

\* update_user_sense: UPDATE user_senses SET text, is_primary, sort_order, note
\* WHERE id = $5 RETURNING ...
UpdateUserSenseWrite(t) ==
    /\ txn[t].pc = "update"
    /\ ~LockedByOther(t, txn[t].sense_id)
    /\ LET rows == Visible(t)
           sense == txn[t].result
       IN  IF txn[t].sense_id \in DOMAIN rows
           THEN LET updated == [rows[txn[t].sense_id] EXCEPT
                                   !.text = sense.text,
                                   !.is_primary = sense.is_primary,
                                   !.sort_order = sense.sort_order,
                                   !.note = sense.note]
                IN  /\ sqlWrites' = [sqlWrites EXCEPT ![t] =
                                        Overlay([id \in {txn[t].sense_id} |-> updated], @)]
                    /\ txn' = [txn EXCEPT
                                  ![t].pc = IF sense.is_primary THEN "demote" ELSE "commit",
                                  ![t].user_word_id = updated.user_word_id,
                                  ![t].result = SenseFromRow(txn[t].sense_id, updated)]
           ELSE /\ sqlWrites' = [sqlWrites EXCEPT ![t] = EmptyRows]
                /\ txn' = [txn EXCEPT ![t] = Finished(txn[t].call, Err("Database"))]
    /\ UNCHANGED <<userSenses, sqlNextId>>
    /\ SqlFrame

\* UPDATE user_senses SET is_primary = FALSE WHERE user_word_id = $1 AND id <> $2:
\* the statement starts and selects the rows it sees
DemoteStart(t) ==
    /\ txn[t].pc = "demote"
    /\ LET rows == Visible(t)
           selected == {id \in DOMAIN rows : /\ rows[id].user_word_id = txn[t].user_word_id
                                             /\ id # txn[t].sense_id}
       IN  txn' = [txn EXCEPT ![t].pc = IF selected = {} THEN "commit" ELSE "demoting",
                              ![t].todo = selected]
    /\ UNCHANGED <<userSenses, sqlWrites, sqlNextId>>
    /\ SqlFrame

\* the same statement locks one selected row and writes its newest version
DemoteRow(t, id) ==
    /\ txn[t].pc = "demoting"
    /\ id \in txn[t].todo
    /\ ~LockedByOther(t, id)
    /\ LET rows == Visible(t)
       IN  sqlWrites' =
               IF id \in DOMAIN rows /\ rows[id].user_word_id = txn[t].user_word_id
               THEN [sqlWrites EXCEPT ![t] =
                        Overlay([i \in {id} |-> [rows[id] EXCEPT !.is_primary = FALSE]], @)]
               ELSE sqlWrites
    /\ txn' = [txn EXCEPT ![t].todo = @ \ {id},
                          ![t].pc = IF txn[t].todo = {id} THEN "commit" ELSE "demoting"]
    /\ UNCHANGED <<userSenses, sqlNextId>>
    /\ SqlFrame

\* tx.commit() and the Ok the call returns
SqlCommit(t) ==
    /\ txn[t].pc = "commit"
    /\ userSenses' = Overlay(sqlWrites[t], userSenses)
    /\ sqlWrites' = [sqlWrites EXCEPT ![t] = EmptyRows]
    /\ txn' = [txn EXCEPT ![t] = Finished(txn[t].call, Ok(txn[t].result))]
    /\ UNCHANGED sqlNextId
    /\ SqlFrame

\* remove_user_sense: begin, DELETE FROM user_senses USING user_words ...
\* RETURNING and the commit.  The DELETE waits for the lock of the row it
\* selected; with no row of that id owned by the user fetch_one fails and the
\* dropped transaction is rolled back
RemoveUserSense(t, user_id, sense_id) ==
    /\ txn[t].pc = "idle"
    /\ ~LockedByOther(t, sense_id)
    /\ LET call == [op |-> "remove_user_sense", user_id |-> user_id, sense_id |-> sense_id]
       IN  IF /\ sense_id \in DOMAIN userSenses
              /\ UserWordOwner(userSenses[sense_id].user_word_id) = user_id
           THEN /\ userSenses' = [id \in DOMAIN userSenses \ {sense_id} |-> userSenses[id]]
                /\ txn' = [txn EXCEPT ![t] =
                              Finished(call, Ok(SenseFromRow(sense_id, userSenses[sense_id])))]
           ELSE /\ userSenses' = userSenses
                /\ txn' = [txn EXCEPT ![t] = Finished(call, Err("Database"))]
    /\ UNCHANGED <<sqlWrites, sqlNextId>>
    /\ SqlFrame

\* the store aborts a transaction that waits for a row of a transaction waiting
\* for one of its rows: the statement fails, the call returns the error through
\* ? and the dropped transaction is rolled back
DeadlockAbort(t) ==
    /\ \E o \in SqlTxns \ {t} :
           /\ WaitsFor(t) \cap DOMAIN sqlWrites[o] # {}
           /\ WaitsFor(o) \cap DOMAIN sqlWrites[t] # {}
    /\ sqlWrites' = [sqlWrites EXCEPT ![t] = EmptyRows]
    /\ txn' = [txn EXCEPT ![t] = Finished(txn[t].call, Err("Database"))]
    /\ UNCHANGED <<userSenses, sqlNextId>>
    /\ SqlFrame

\* a word with no sense yet, and a word with a primary and a secondary sense
InitialSenseTables ==
    {EmptyRows,
     [id \in {1, 2} |->
         [user_word_id |-> 1, text |-> IF id = 1 THEN <<"a">> ELSE <<"b">>,
          is_primary |-> (id = 1), sort_order |-> 0, note |-> None]]}

NewUserSenses ==
    [user_word_id : SqlUserWords, text : {<<"c">>, <<"e">>}, is_primary : BOOLEAN,
     sort_order : {0}, note : {None}]

SenseUpdates ==
    [text : {None, Some(<<"d">>)},
     is_primary : {None, Some(TRUE), Some(FALSE)},
     sort_order : {None, Some(1)},
     note : {None, Some(Some(<<"n">>))}]

SenseTxnInit ==
    /\ userSenses \in InitialSenseTables
    /\ sqlNextId = Cardinality(DOMAIN userSenses) + 1
    /\ sqlWrites = [t \in SqlTxns |-> EmptyRows]
    /\ txn = [t \in SqlTxns |-> [pc |-> "idle"]]
    /\ CanonIdle
    /\ TagsIdle
    /\ DomainIdle
    /\ GraphIdle
    /\ RwtIdle
    /\ WordIdle
    /\ SvcIdle

SenseTxnNext ==
    \E t \in SqlTxns :
        \/ \E sense \in NewUserSenses : AddUserSenseInsert(t, sense)
        \/ \E user_id \in SqlUsers, sense_id \in DOMAIN userSenses, update \in SenseUpdates :
               UpdateUserSenseSelect(t, user_id, sense_id, update)
        \/ \E user_id \in SqlUsers, sense_id \in DOMAIN userSenses :
               RemoveUserSense(t, user_id, sense_id)
        \/ UpdateUserSenseWrite(t)
        \/ DemoteStart(t)
        \/ \E id \in WaitsFor(t) : DemoteRow(t, id)
        \/ SqlCommit(t)
        \/ DeadlockAbort(t)

SenseTxnSpec == SenseTxnInit /\ [][SenseTxnNext]_vars

(***************************************************************************)
(* repository/graph.rs: run_with_timeout, through which every call of the  *)
(* repository runs its query.  Time is counted in ticks from the start of  *)
(* the call.  tokio's timeout wraps graph.execute(query): when the         *)
(* configured time has passed and execute has not completed, the call      *)
(* returns Timeout.  The rows of the result are then fetched one            *)
(* result.next().await at a time.                                          *)
(***************************************************************************)
TimeoutTicks == 2
MaxElapsed == 4
MaxRows == 2

GraphOperations ==
    {"create_word_link", "delete_word_link", "list_word_links",
     "create_sense_word_link", "delete_sense_word_link", "list_sense_word_links",
     "remove_links_for_sense", "upsert_node_word", "upsert_node_sense"}

RwtReturned(ret, cause) ==
    [pc |-> "returned", op |-> rwt.op, elapsed |-> rwt.elapsed, ret |-> ret,
     cause |-> cause]

RwtFrame == UNCHANGED <<CanonVars, TagsVars, DomainVars, GraphVars, SqlVars, WordVars, SvcVars>>

RwtInit ==
    /\ rwt = [pc |-> "idle"]
    /\ CanonIdle
    /\ TagsIdle
    /\ DomainIdle
    /\ GraphIdle
    /\ SqlIdle
    /\ WordIdle
    /\ SvcIdle

\* an operation calls self.run_with_timeout(query)
RwtStart(op) ==
    /\ rwt.pc = "idle"
    /\ rwt' = [pc |-> "executing", op |-> op, elapsed |-> 0]
    /\ RwtFrame

\* time passes while the call awaits; an execute still pending when the
\* configured time has passed does not go on
RwtTick ==
    /\ rwt.pc \in {"executing", "fetching"}
    /\ rwt.elapsed < MaxElapsed
    /\ rwt.pc = "executing" => rwt.elapsed < TimeoutTicks
    /\ rwt' = [rwt EXCEPT !.elapsed = @ + 1]
    /\ RwtFrame

\* Ok(Ok(mut result)): execute completed in time, with a stream of rows
ExecuteCompletes(total) ==
    /\ rwt.pc = "executing"
    /\ rwt' = [pc |-> "fetching", op |-> rwt.op, elapsed |-> rwt.elapsed,
               total |-> total, rows |-> 0]
    /\ RwtFrame

\* Ok(Err(err)) => Err(GraphRepositoryError::Database(err))
ExecuteFails ==
    /\ rwt.pc = "executing"
    /\ rwt' = RwtReturned(Err("Database"), "backend_failure")
    /\ RwtFrame

\* Err(_) => Err(GraphRepositoryError::Timeout)
ExecuteTimesOut ==
    /\ rwt.pc = "executing"
    /\ rwt.elapsed = TimeoutTicks
    /\ rwt' = RwtReturned(Err("Timeout"), "timeout")
    /\ RwtFrame

\* while let Ok(Some(row)) = result.next().await { rows.push(row) }
FetchRow ==
    /\ rwt.pc = "fetching"
    /\ rwt.rows < rwt.total
    /\ rwt' = [rwt EXCEPT !.rows = @ + 1]
    /\ RwtFrame

\* result.next() yields Ok(None): the loop ends and Ok(rows) is returned
FetchEnds ==
    /\ rwt.pc = "fetching"
    /\ rwt.rows = rwt.total
    /\ rwt' = RwtReturned(Ok([rows |-> rwt.rows, total |-> rwt.total]), "none")
    /\ RwtFrame

\* result.next() yields Err: the pattern does not match, the loop ends and
\* Ok(rows) is returned with the rows pushed so far
FetchFails ==
    /\ rwt.pc = "fetching"
    /\ rwt' = RwtReturned(Ok([rows |-> rwt.rows, total |-> rwt.total]), "backend_failure")
    /\ RwtFrame

RwtNext ==
    \/ \E op \in GraphOperations : RwtStart(op)
    \/ RwtTick
    \/ \E total \in 0..MaxRows : ExecuteCompletes(total)
    \/ ExecuteFails
    \/ ExecuteTimesOut
    \/ FetchRow
    \/ FetchEnds
    \/ FetchFails

RwtSpec == RwtInit /\ [][RwtNext]_vars

(***************************************************************************)
(* domain/word.rs: CanonicalKey and the validators the constructors run    *)
(***************************************************************************)
MAX_NOTE_LENGTH == 512
MAX_SENSE_TEXT_LENGTH == 512
MAX_SENSE_NOTE_LENGTH == 512

\* the run of "s" the regex \\s+ consumes after a backslash
TrimStartMatchesS(s) == TrimStartMatches(s, {"s"})

\* MULTI_WHITESPACE.replace_all(trimmed, " ") of domain/word.rs, whose regex
\* is written r"\\s+": a backslash followed by one or more letters s
RECURSIVE DomainMultiWhitespaceReplaceAll(_)
DomainMultiWhitespaceReplaceAll(s) ==
    IF s = <<>> THEN <<>>
    ELSE IF Head(s) = "\\" /\ Len(s) >= 2 /\ s[2] = "s"
         THEN <<" ">> \o DomainMultiWhitespaceReplaceAll(TrimStartMatchesS(Tail(s)))
         ELSE <<Head(s)>> \o DomainMultiWhitespaceReplaceAll(Tail(s))

normalize_canonical_text(input) ==
    LET trimmed == Trim(input) IN
    IF trimmed = <<>> THEN <<>>
    ELSE LET collapsed == DomainMultiWhitespaceReplaceAll(trimmed)
             stripped == Trim(TrimMatches(collapsed, AsciiPunctuation))
         IN  IF stripped = <<>> THEN <<>>
             ELSE LET lowercase == ToLowercase(stripped)
                      replaced == ReplaceSpaceWithDash(lowercase)
                      cleaned == CleanScan(replaced, <<>>, FALSE)
                  IN  TrimMatches(cleaned, {"-"})

\* CanonicalKey::new
CanonicalKeyNew(text) ==
    LET normalized == normalize_canonical_text(text) IN
    IF normalized = <<>> THEN Err("Empty") ELSE Ok(normalized)

validate_note(note) ==
    IF note = None THEN Ok(None)
    ELSE LET trimmed == Trim(note[1]) IN
         IF trimmed = <<>> THEN Err("InvalidNote")
         ELSE IF Len(trimmed) > MAX_NOTE_LENGTH THEN ErrWith("NoteTooLong", Len(trimmed))
         ELSE Ok(Some(trimmed))

normalize_sense_text(text) ==
    LET trimmed == Trim(text) IN
    IF trimmed = <<>> THEN Err("EmptyText")
    ELSE IF Len(trimmed) > MAX_SENSE_TEXT_LENGTH THEN ErrWith("TextTooLong", Len(trimmed))
    ELSE Ok(trimmed)

validate_sense_note(note) ==
    IF note = None THEN Ok(None)
    ELSE LET trimmed == Trim(note[1]) IN
         IF trimmed = <<>> THEN Err("InvalidNote")
         ELSE IF Len(trimmed) > MAX_SENSE_NOTE_LENGTH
              THEN ErrWith("NoteTooLong", Len(trimmed))
              ELSE Ok(Some(trimmed))

\* UserSense::from_parts (created_at is carried through and left out)
UserSenseFromParts(id, text, is_primary, sort_order, note) ==
    LET t == normalize_sense_text(text) IN
    IF ~t.ok THEN t
    ELSE LET n == validate_sense_note(note) IN
         IF ~n.ok THEN n
         ELSE Ok([id |-> id, text |-> t.val, is_primary |-> is_primary,
                  sort_order |-> sort_order, note |-> n.val])

\* the loop "for sense in senses { word.add_sense(sense)?; }"
RECURSIVE AddSenses(_, _)
AddSenses(ss, rest) ==
    IF rest = <<>> THEN Ok(ss)
    ELSE LET r == add_sense(ss, Head(rest)) IN
         IF ~r.ret.ok THEN r.ret ELSE AddSenses(r.senses, Tail(rest))

\* UserWord::from_parts
UserWordFromParts(id, user_id, word_id, tags, note, ss) ==
    LET t == normalize_tags(tags) IN
    IF ~t.ok THEN t
    ELSE LET n == validate_note(note) IN
         IF ~n.ok THEN n
         ELSE LET added == AddSenses(<<>>, ss) IN
              IF ~added.ok THEN added
              ELSE Ok([id |-> id, user_id |-> user_id, word_id |-> word_id,
                       tags |-> t.val, note |-> n.val, senses |-> added.val])

(***************************************************************************)
(* repository/word.rs: reading aggregates back (aggregate_query,           *)
(* build_aggregate, find_user_word, search).  The operators take the       *)
(* tables the statement sees: W of words, UW of user_words and US of       *)
(* user_senses, each a function from the row id to the row.                *)
(***************************************************************************)
\* a column of user_senses that holds NULL
SqlNull == <<"NULL">>

\* serde_json::Value
JNull == [t |-> "null"]
JString(s) == [t |-> "string", v |-> s]
JNumber(n) == [t |-> "number", v |-> n]
JBool(b) == [t |-> "bool", v |-> b]

I32_MAX == 2147483647

\* json_build_object('id', us.id, 'text', us.text, ...) of aggregate_query
json_build_object(id, row) ==
    [id |-> JNumber(id),
     text |-> IF row.text = SqlNull THEN JNull ELSE JString(row.text),
     is_primary |-> JBool(row.is_primary),
     sort_order |-> JNumber(row.sort_order),
     note |-> IF row.note = None THEN JNull ELSE JString(row.note[1])]

\* the sequences json_agg(... ORDER BY us.sort_order) may produce: rows of
\* equal sort_order come in an order SQL leaves open
RECURSIVE OrderBySortOrder(_, _)
OrderBySortOrder(US, ids) ==
    IF ids = {} THEN {<<>>}
    ELSE LET first == {i \in ids : \A j \in ids : US[i].sort_order <= US[j].sort_order}
         IN  UNION {{<<i>> \o rest : rest \in OrderBySortOrder(US, ids \ {i})} : i \in first}

\* the rows aggregate_query selects for one user word, one per order of json_agg;
\* COALESCE(..., '[]') is the empty array when the LEFT JOIN found no sense
AggregateRows(W, UW, US, user_word_id) ==
    LET uw == UW[user_word_id]
        w == W[uw.word_id]
        ids == {i \in DOMAIN US : US[i].user_word_id = user_word_id}
    IN  {[user_word_id |-> user_word_id, user_id |-> uw.user_id, word_id |-> uw.word_id,
          tags |-> uw.tags, note |-> uw.note,
          word_text |-> w.text, word_canonical |-> w.canonical_key,
          word_created_at |-> w.created_at,
          senses |-> [k \in 1..Len(ord) |-> json_build_object(ord[k], US[ord[k]])]]
         : ord \in OrderBySortOrder(US, ids)}

\* the JOIN of the query: user_words rows of the user whose word exists
aggregate_query(W, UW, user_id) ==
    {i \in DOMAIN UW : UW[i].user_id = user_id /\ UW[i].word_id \in DOMAIN W}

\* serde: one JsonSenseRow { id: Option<i64>, text: String, is_primary: bool,
\* sort_order: i32, note: Option<String> } decodes from this object
DecodesJsonSenseRow(o) ==
    /\ o.id.t \in {"null", "number"}
    /\ o.text.t = "string"
    /\ o.is_primary.t = "bool"
    /\ o.sort_order.t = "number" /\ o.sort_order.v >= I32_MIN /\ o.sort_order.v <= I32_MAX
    /\ o.note.t \in {"null", "string"}

JsonSenseRow(o) ==
    [id |-> IF o.id.t = "null" THEN None ELSE Some(o.id.v),
     text |-> o.text.v,
     is_primary |-> o.is_primary.v,
     sort_order |-> o.sort_order.v,
     note |-> IF o.note.t = "null" THEN None ELSE Some(o.note.v)]

\* serde_json::from_value::<Vec<JsonSenseRow>>
from_value(value) ==
    IF \A k \in 1..Len(value) : DecodesJsonSenseRow(value[k])
    THEN Ok([k \in 1..Len(value) |-> JsonSenseRow(value[k])])
    ELSE Err("Json")

\* Result::unwrap_or_default
unwrap_or_default(r) == IF r.ok THEN r.val ELSE <<>>

RECURSIVE MapSenseRows(_, _)
MapSenseRows(rest, result) ==
    IF rest = <<>> THEN Ok(result)
    ELSE LET r == Head(rest)
             s == UserSenseFromParts(r.id, r.text, r.is_primary, r.sort_order, r.note)
         IN  IF ~s.ok THEN s ELSE MapSenseRows(Tail(rest), Append(result, s.val))

map_senses(value) == MapSenseRows(unwrap_or_default(from_value(value)), <<>>)

map_user_word(row) ==
    UserWordFromParts(Some(row.user_word_id), row.user_id, row.word_id,
                      row.tags, row.note, <<>>)

build_aggregate(row) ==
    LET user_word == map_user_word(row) IN
    IF ~user_word.ok THEN user_word
    ELSE LET ss == map_senses(row.senses) IN
         IF ~ss.ok THEN ss
         ELSE LET added == AddSenses(user_word.val.senses, ss.val) IN
              IF ~added.ok THEN added
              ELSE LET key == CanonicalKeyNew(row.word_canonical) IN
                   IF ~key.ok THEN key
                   ELSE Ok([word |-> [id |-> row.word_id, text |-> row.word_text,
                                      canonical_key |-> key.val,
                                      created_at |-> row.word_created_at],
                            user_word |-> [user_word.val EXCEPT !.senses = added.val]])

\* find_user_word: what the call may return
find_user_word(W, UW, US, user_id, user_word_id) ==
    IF user_word_id \in aggregate_query(W, UW, user_id)
    THEN {LET built == build_aggregate(row) IN IF built.ok THEN Ok(Some(built.val)) ELSE built
          : row \in AggregateRows(W, UW, US, user_word_id)}
    ELSE {Ok(None)}

\* LIKE: % matches any run of characters, _ any one character
RECURSIVE LikeMatch(_, _)
LikeMatch(s, p) ==
    IF p = <<>> THEN s = <<>>
    ELSE IF Head(p) = "%"
         THEN LikeMatch(s, Tail(p)) \/ (s # <<>> /\ LikeMatch(Tail(s), p))
         ELSE /\ s # <<>>
              /\ Head(p) = "_" \/ Head(p) = Head(s)
              /\ LikeMatch(Tail(s), Tail(p))

\* ILIKE; NULL ILIKE pattern is not true
ILike(s, p) == s # SqlNull /\ LikeMatch(ToLowercase(s), ToLowercase(p))

canonical_like_pattern(text) == ReplaceSpaceWithDash(ToLowercase(Trim(text)))

\* the characters in byte order, for ORDER BY w.canonical_key
ByteOrder ==
    <<" ", "!", "%", "-", "0", "1", "2", "3", "4", "5", "6", "7", "8", "9">>
        \o AsciiUpper \o <<"_">> \o AsciiLower

CodePoint(c) == CHOOSE i \in 1..Len(ByteOrder) : ByteOrder[i] = c

RECURSIVE StrLess(_, _)
StrLess(a, b) ==
    IF b = <<>> THEN FALSE
    ELSE IF a = <<>> THEN TRUE
    ELSE IF Head(a) = Head(b) THEN StrLess(Tail(a), Tail(b))
    ELSE CodePoint(Head(a)) < CodePoint(Head(b))

\* ORDER BY w.canonical_key (ties, which the unique key rules out, by id)
RECURSIVE OrderByCanonicalKey(_, _, _)
OrderByCanonicalKey(W, UW, ids) ==
    IF ids = {} THEN <<>>
    ELSE LET key(i) == W[UW[i].word_id].canonical_key
             first == CHOOSE i \in ids :
                        \A j \in ids \ {i} :
                            StrLess(key(i), key(j)) \/ (key(i) = key(j) /\ i < j)
         IN  <<first>> \o OrderByCanonicalKey(W, UW, ids \ {first})

\* the WHERE clause of search: the user words the statement matches
SearchMatches(W, UW, US, user_id, query, scope) ==
    LET trimmed == Trim(query)
        pattern == IF scope = "Word"
                   THEN <<"%">> \o canonical_like_pattern(trimmed) \o <<"%">>
                   ELSE <<"%">> \o trimmed \o <<"%">>
        word(i) == ILike(W[UW[i].word_id].canonical_key, pattern)
        sense(i) == \E s \in DOMAIN US : US[s].user_word_id = i /\ ILike(US[s].text, pattern)
    IN  {i \in aggregate_query(W, UW, user_id) :
            \/ trimmed = <<>>
            \/ scope = "Word" /\ word(i)
            \/ scope = "Sense" /\ sense(i)
            \/ scope = "Both" /\ (word(i) \/ sense(i))}

\* rows.into_iter().map(Self::build_aggregate).collect()
RECURSIVE CollectAggregates(_, _)
CollectAggregates(rows, result) ==
    IF rows = <<>> THEN Ok(result)
    ELSE LET built == build_aggregate(Head(rows)) IN
         IF ~built.ok THEN built ELSE CollectAggregates(Tail(rows), Append(result, built.val))

RECURSIVE FetchAll(_, _, _, _)
FetchAll(W, UW, US, ids) ==
    IF ids = <<>> THEN {<<>>}
    ELSE {<<row>> \o rest : row \in AggregateRows(W, UW, US, Head(ids)),
                            rest \in FetchAll(W, UW, US, Tail(ids))}

\* search: what the call may return
search(W, UW, US, params) ==
    LET matched == SearchMatches(W, UW, US, params.user_id, params.query, params.scope)
        page == SkipLimit(OrderByCanonicalKey(W, UW, matched), params.offset, params.limit)
    IN  {CollectAggregates(rows, <<>>) : rows \in FetchAll(W, UW, US, page)}

(***************************************************************************)
(* The read calls over stored tables.  The tables start in a state earlier *)
(* calls, or a writer outside the repository, left behind: the words carry *)
(* the key of their text; the annotation and the senses of the first user  *)
(* word may have drifted from what the domain accepts.                     *)
(***************************************************************************)
MaxStoredSenses == 2
MaxQueryLen == 3

StoredWordTexts == {<<"a", " ", "b">>, <<"B">>, <<"a", "b">>}

WordRow(text, created_at) ==
    [text |-> text, canonical_key |-> canonicalize(text).val, created_at |-> created_at]

\* one or two words of distinct keys
StoredWordTables ==
    {[i \in 1..n |-> WordRow(texts[i], i)] :
        n \in 1..2,
        texts \in {t \in [1..2 -> StoredWordTexts] :
                      canonicalize(t[1]).val # canonicalize(t[2]).val}}

\* tags and note of the first user word
StoredAnnotations ==
    {[tags |-> <<>>, note |-> None],
     [tags |-> <<<<"t">>, <<"T">>>>, note |-> Some(<<"n">>)],
     [tags |-> <<<<"!">>>>, note |-> None],
     [tags |-> <<>>, note |-> Some(<<" ">>)]}

\* the first user owns one user word per word, the second user one of the first word
StoredUserWordTables(W, annotation) ==
    [i \in DOMAIN W \cup {3} |->
        IF i = 3 THEN [user_id |-> 2, word_id |-> 1, tags |-> <<>>, note |-> None]
        ELSE IF i = 1
             THEN [user_id |-> 1, word_id |-> 1,
                   tags |-> annotation.tags, note |-> annotation.note]
             ELSE [user_id |-> 1, word_id |-> i, tags |-> <<>>, note |-> None]]

StoredSenseRows ==
    [user_word_id : {1},
     text : {<<"a">>, <<"A">>, <<"a", " ", "b">>, <<" ">>, SqlNull},
     is_primary : BOOLEAN, sort_order : {0, 1}, note : {None}]

StoredSenseTables ==
    UNION {[1..n -> StoredSenseRows] : n \in 0..MaxStoredSenses}

ReadUsers == {1, 2}
ReadUserWords == {1, 2, 3}
SearchScopes == {"Word", "Sense", "Both"}
SearchQueries == TextsUpTo({"a", "B", " "}, MaxQueryLen)
SearchPages == {[limit |-> MaxStoredSenses + 1, offset |-> 0], [limit |-> 1, offset |-> 1]}

SearchParams ==
    {[user_id |-> u, query |-> q, scope |-> s, limit |-> p.limit, offset |-> p.offset] :
        u \in ReadUsers, q \in SearchQueries, s \in SearchScopes, p \in SearchPages}

\* the searches run over the drifted tables: every word of the first user
ListingParams ==
    {[user_id |-> 1, query |-> q, scope |-> "Both", limit |-> MaxStoredSenses + 1,
      offset |-> 0] : q \in {<<>>, <<"a">>}}

ReadFrame == UNCHANGED <<CanonVars, TagsVars, DomainVars, GraphVars, RwtVars, SvcVars>>

ReadInit ==
    /\ wordsTable \in StoredWordTables
    /\ \E annotation \in StoredAnnotations :
           userWords = StoredUserWordTables(wordsTable, annotation)
    /\ userSenses \in StoredSenseTables
    /\ sqlNextId = Cardinality(DOMAIN userSenses) + 1
    /\ sqlWrites = <<>>
    /\ txn = <<>>
    /\ wordTx = <<>>
    /\ wordRet = NoCall
    /\ wordSeq = <<>>
    /\ CanonIdle
    /\ TagsIdle
    /\ DomainIdle
    /\ GraphIdle
    /\ RwtIdle
    /\ SvcIdle

\* a read leaves the tables as they are
ReadReturns(call, res) ==
    /\ wordRet' = [call |-> call, res |-> res]
    /\ UNCHANGED <<wordsTable, userWords, wordTx, wordSeq, userSenses, sqlWrites, sqlNextId, txn>>
    /\ ReadFrame

\* the run follows one read
FindUserWord(user_id, user_word_id) ==
    /\ wordRet = NoCall
    /\ \E res \in find_user_word(wordsTable, userWords, userSenses, user_id, user_word_id) :
           ReadReturns([op |-> "find_user_word", user_id |-> user_id,
                        user_word_id |-> user_word_id], res)

Search(params) ==
    /\ wordRet = NoCall
    /\ \E res \in search(wordsTable, userWords, userSenses, params) :
           ReadReturns([op |-> "search", params |-> params], res)

ReadNext ==
    \/ \E u \in ReadUsers, i \in ReadUserWords : FindUserWord(u, i)
    \/ \E params \in ListingParams : Search(params)

ReadSpec == ReadInit /\ [][ReadNext]_vars

\* the senses the repository's own calls store: trimmed texts, no two equal
\* ignoring case, no primary
KeptSenseRows ==
    [user_word_id : {1, 2}, text : {<<"a">>, <<"A">>, <<"a", " ", "b">>},
     is_primary : {FALSE}, sort_order : {0}, note : {None}]

KeptSenseTables ==
    {t \in UNION {[1..n -> KeptSenseRows] : n \in 0..MaxStoredSenses} :
        \A i, j \in DOMAIN t :
            (i # j /\ t[i].user_word_id = t[j].user_word_id)
                => ~EqIgnoreAsciiCase(t[i].text, t[j].text)}

SearchInit ==
    /\ wordsTable \in StoredWordTables
    /\ userWords = StoredUserWordTables(wordsTable, [tags |-> <<>>, note |-> None])
    /\ userSenses \in {t \in KeptSenseTables :
                          \A i \in DOMAIN t : t[i].user_word_id \in DOMAIN wordsTable}
    /\ sqlNextId = Cardinality(DOMAIN userSenses) + 1
    /\ sqlWrites = <<>>
    /\ txn = <<>>
    /\ wordTx = <<>>
    /\ wordRet = NoCall
    /\ wordSeq = <<>>
    /\ CanonIdle
    /\ TagsIdle
    /\ DomainIdle
    /\ GraphIdle
    /\ RwtIdle
    /\ SvcIdle

SearchNext == \E params \in SearchParams : Search(params)

SearchSpec == SearchInit /\ [][SearchNext]_vars

(***************************************************************************)
(* repository/word.rs: upsert_word and upsert_user_word.  Two connections  *)
(* of the pool make calls one after another.  ON CONFLICT names the unique *)
(* indexes of words(canonical_key) and user_words(user_id, word_id); an     *)
(* INSERT that meets an uncommitted row of the same key waits for the      *)
(* transaction that wrote it.                                              *)
(***************************************************************************)
WordConns == {1, 2}
MaxCalls == 2

UpsertTexts == {<<"a">>, <<"A">>, <<"b">>}
UpsertAnnotations ==
    {[tags |-> <<>>, note |-> None], [tags |-> <<<<"t">>>>, note |-> Some(<<"n">>)]}

\* the payloads add_to_my_network builds: the key of the text, normalized tags
UpsertUserWords ==
    {[user_id |-> u, word_text |-> text, canonical_key |-> CanonicalKeyNew(text).val,
      tags |-> a.tags, note |-> a.note] :
        u \in ReadUsers, text \in UpsertTexts, a \in UpsertAnnotations}

WordTxIdle == [pc |-> "idle"]

\* the transactions that hold uncommitted writes
InFlight(c) == wordTx[c].pc \in {"word_written", "assoc_written"}

\* another transaction holds the lock of the words row of this key
WordKeyLocked(c, canonical_key) ==
    \E o \in WordConns \ {c} :
        InFlight(o) /\ wordTx[o].word.row.canonical_key = canonical_key

\* another transaction holds the lock of the user_words row of this pair
UserWordKeyLocked(c, user_id, word_id) ==
    \E o \in WordConns \ {c} :
        /\ wordTx[o].pc = "assoc_written"
        /\ wordTx[o].assoc.row.user_id = user_id
        /\ wordTx[o].assoc.row.word_id = word_id

\* a plain INSERT INTO words, with no ON CONFLICT clause and no unique index
UpsertWordsRowInsertOnly(text, canonical_key) ==
    [id |-> wordSeq.words,
     row |-> [text |-> text, canonical_key |-> canonical_key, created_at |-> wordSeq.calls]]

\* INSERT INTO words ... ON CONFLICT (canonical_key) DO UPDATE SET text =
\* EXCLUDED.text RETURNING ...: the id and the row the statement writes
UpsertWordsRow(text, canonical_key) ==
    LET conflict == {i \in DOMAIN wordsTable : wordsTable[i].canonical_key = canonical_key} IN
    IF conflict # {}
    THEN LET i == CHOOSE i \in conflict : TRUE IN
         [id |-> i, row |-> [wordsTable[i] EXCEPT !.text = text]]
    ELSE [id |-> wordSeq.words,
          row |-> [text |-> text, canonical_key |-> canonical_key,
                   created_at |-> wordSeq.calls]]

\* INSERT INTO user_words ... ON CONFLICT (user_id, word_id) DO UPDATE SET
\* tags = EXCLUDED.tags, note = EXCLUDED.note RETURNING id
UpsertUserWordsRow(user_id, word_id, tags, note) ==
    LET conflict == {i \in DOMAIN userWords :
                        userWords[i].user_id = user_id /\ userWords[i].word_id = word_id} IN
    IF conflict # {}
    THEN LET i == CHOOSE i \in conflict : TRUE IN
         [id |-> i, row |-> [userWords[i] EXCEPT !.tags = tags, !.note = note]]
    ELSE [id |-> wordSeq.user_words,
          row |-> [user_id |-> user_id, word_id |-> word_id, tags |-> tags, note |-> note]]

map_word_row(id, row) ==
    LET key == CanonicalKeyNew(row.canonical_key) IN
    IF ~key.ok THEN key
    ELSE Ok([id |-> id, text |-> row.text, canonical_key |-> key.val,
             created_at |-> row.created_at])

WordFrame ==
    UNCHANGED <<CanonVars, TagsVars, DomainVars, GraphVars, SqlVars, RwtVars, SvcVars>>

StartsCall == wordSeq.calls < MaxCalls

\* upsert_word: one statement on the pool, committed when it returns
UpsertWord(c, text) ==
    LET canonical == CanonicalKeyNew(text).val
        written == UpsertWordsRow(text, canonical)
    IN  /\ wordTx[c].pc = "idle"
        /\ StartsCall
        /\ ~WordKeyLocked(c, canonical)
        /\ wordsTable' = Overlay([i \in {written.id} |-> written.row], wordsTable)
        /\ wordSeq' = [wordSeq EXCEPT !.words = @ + 1, !.calls = @ + 1]
        /\ wordRet' = [call |-> [op |-> "upsert_word", canonical |-> canonical, text |-> text],
                       res |-> map_word_row(written.id, written.row)]
        /\ UNCHANGED <<userWords, wordTx>>
        /\ WordFrame

\* the first statement of upsert_user_word written on the pool, outside the
\* transaction
WriteWordsRowOnPool(c, payload, written) ==
    /\ wordsTable' = Overlay([i \in {written.id} |-> written.row], wordsTable)
    /\ wordTx' = [wordTx EXCEPT ![c] = [pc |-> "word_written", payload |-> payload,
                                       word |-> written]]

\* the first statement of upsert_user_word: the row is written in the
\* transaction and stays invisible to the other connections
WriteWordsRow(c, payload, written) ==
    /\ wordTx' = [wordTx EXCEPT ![c] = [pc |-> "word_written", payload |-> payload,
                                       word |-> written]]
    /\ UNCHANGED wordsTable

\* upsert_user_word: pool.begin() and the words upsert
UpsertUserWordBegin(c, payload) ==
    /\ wordTx[c].pc = "idle"
    /\ StartsCall
    /\ ~WordKeyLocked(c, payload.canonical_key)
    /\ WriteWordsRow(c, payload, UpsertWordsRow(payload.word_text, payload.canonical_key))
    /\ wordSeq' = [wordSeq EXCEPT !.words = @ + 1, !.calls = @ + 1]
    /\ UNCHANGED <<userWords, wordRet>>
    /\ WordFrame

\* upsert_user_word: map_word_row and the user_words upsert
UpsertUserWordAssoc(c) ==
    /\ wordTx[c].pc = "word_written"
    /\ LET payload == wordTx[c].payload
           word == map_word_row(wordTx[c].word.id, wordTx[c].word.row)
       IN  /\ word.ok
           /\ ~UserWordKeyLocked(c, payload.user_id, word.val.id)
           /\ wordTx' = [wordTx EXCEPT ![c] =
                            [@ EXCEPT !.pc = "assoc_written"] @@
                            [assoc |-> UpsertUserWordsRow(payload.user_id, word.val.id,
                                                          payload.tags, payload.note)]]
    /\ wordSeq' = [wordSeq EXCEPT !.user_words = @ + 1]
    /\ UNCHANGED <<wordsTable, userWords, wordRet>>
    /\ WordFrame

\* upsert_user_word: a statement after the first, or the commit, fails; the
\* function returns through "?" and the dropped transaction rolls back
UpsertUserWordFails(c) ==
    /\ InFlight(c)
    /\ wordTx' = [wordTx EXCEPT ![c] = WordTxIdle]
    /\ wordRet' = [call |-> [op |-> "upsert_user_word", payload |-> wordTx[c].payload],
                   res |-> Err("Database")]
    /\ UNCHANGED <<wordsTable, userWords, wordSeq>>
    /\ WordFrame

\* upsert_user_word: tx.commit()
UpsertUserWordCommit(c) ==
    /\ wordTx[c].pc = "assoc_written"
    /\ wordsTable' = Overlay([i \in {wordTx[c].word.id} |-> wordTx[c].word.row], wordsTable)
    /\ userWords' = Overlay([i \in {wordTx[c].assoc.id} |-> wordTx[c].assoc.row], userWords)
    /\ wordTx' = [wordTx EXCEPT ![c] = [pc |-> "committed", payload |-> @.payload,
                                       user_word_id |-> @.assoc.id]]
    /\ UNCHANGED <<wordRet, wordSeq>>
    /\ WordFrame

\* upsert_user_word: the find_user_word after the commit, on the pool
UpsertUserWordFind(c) ==
    /\ wordTx[c].pc = "committed"
    /\ \E found \in find_user_word(wordsTable, userWords, userSenses,
                                   wordTx[c].payload.user_id, wordTx[c].user_word_id) :
          wordRet' = [call |-> [op |-> "upsert_user_word", payload |-> wordTx[c].payload],
                      res |-> IF ~found.ok THEN found
                              ELSE IF found.val = None THEN Err("Database")
                              ELSE Ok(found.val[1])]
    /\ wordTx' = [wordTx EXCEPT ![c] = WordTxIdle]
    /\ UNCHANGED <<wordsTable, userWords, wordSeq>>
    /\ WordFrame

\* no word yet, or the word "a" in the network of the first user with a sense
InitialWordTables ==
    {[words |-> <<>>, user_words |-> <<>>, user_senses |-> <<>>],
     [words |-> <<[text |-> <<"a">>, canonical_key |-> <<"a">>, created_at |-> 0]>>,
      user_words |-> <<[user_id |-> 1, word_id |-> 1, tags |-> <<>>, note |-> None]>>,
      user_senses |-> <<[user_word_id |-> 1, text |-> <<"x">>, is_primary |-> TRUE,
                         sort_order |-> 0, note |-> None]>>]}

UpsertInit ==
    /\ \E t \in InitialWordTables :
          /\ wordsTable = t.words
          /\ userWords = t.user_words
          /\ userSenses = t.user_senses
    /\ wordSeq = [words |-> Len(wordsTable) + 1, user_words |-> Len(userWords) + 1,
                  calls |-> 0]
    /\ wordTx = [c \in WordConns |-> WordTxIdle]
    /\ wordRet = NoCall
    /\ sqlNextId = Cardinality(DOMAIN userSenses) + 1
    /\ sqlWrites = <<>>
    /\ txn = <<>>
    /\ CanonIdle
    /\ TagsIdle
    /\ DomainIdle
    /\ GraphIdle
    /\ RwtIdle
    /\ SvcIdle

UpsertNext ==
    \E c \in WordConns :
        \/ \E text \in UpsertTexts : UpsertWord(c, text)
        \/ \E payload \in UpsertUserWords : UpsertUserWordBegin(c, payload)
        \/ UpsertUserWordAssoc(c)
        \/ UpsertUserWordFails(c)
        \/ UpsertUserWordCommit(c)
        \/ UpsertUserWordFind(c)

UpsertSpec == UpsertInit /\ [][UpsertNext]_vars

(***************************************************************************)
(* service/word.rs and service/sense.rs: the calls that span both stores.  *)
(* Links are made through the graph repository first; then one service     *)
(* call runs, each of its repository calls a step of its own, any of which *)
(* may fail because its backend does.                                      *)
(***************************************************************************)
\* limit: 100 of the WordLinkFilter in remove_from_my_network
LINK_PAGE_LIMIT == 100

SvcUsers == {1}

\* two words in the network of the first user, the first with one sense
SvcWordsTable ==
    <<[text |-> <<"a">>, canonical_key |-> <<"a">>, created_at |-> 0],
      [text |-> <<"b">>, canonical_key |-> <<"b">>, created_at |-> 0]>>

SvcUserWords ==
    <<[user_id |-> 1, word_id |-> 1, tags |-> <<>>, note |-> None],
      [user_id |-> 1, word_id |-> 2, tags |-> <<>>, note |-> None]>>

SvcUserSenses ==
    <<[user_word_id |-> 1, text |-> <<"x">>, is_primary |-> TRUE, sort_order |-> 0,
       note |-> None]>>

SvcReturned(call, res) == [pc |-> "returned", call |-> call, res |-> res]

SvcFrame == UNCHANGED <<CanonVars, TagsVars, DomainVars, RwtVars>>
SqlTablesUnchanged ==
    UNCHANGED <<wordsTable, userWords, wordTx, wordRet, wordSeq,
                userSenses, sqlWrites, sqlNextId, txn>>

\* the graph after a repository call that ended in outcome o
GraphBecomes(o) ==
    /\ wordNodes' = o.wordNodes
    /\ senseNodes' = o.senseNodes
    /\ wwEdges' = o.wwEdges
    /\ swEdges' = o.swEdges
    /\ relCount' = o.relCount
    /\ UNCHANGED gRet

\* the ids of the senses of an aggregate, in order
RECURSIVE SenseIds(_)
SenseIds(ss) ==
    IF ss = <<>> THEN <<>>
    ELSE (IF Head(ss).id = None THEN <<>> ELSE <<Head(ss).id[1]>>) \o SenseIds(Tail(ss))

\* remove_from_my_network: find_user_word
RemoveFromMyNetworkFind(user_id, user_word_id) ==
    /\ svc.pc = "idle"
    /\ LET call == [op |-> "remove_from_my_network", user_id |-> user_id,
                    user_word_id |-> user_word_id]
       IN  \E found \in find_user_word(wordsTable, userWords, userSenses,
                                       user_id, user_word_id) :
              svc' = IF ~found.ok THEN SvcReturned(call, found)
                     ELSE IF found.val = None THEN SvcReturned(call, Err("NotInNetwork"))
                     ELSE LET aggregate == found.val[1]
                              ids == SenseIds(aggregate.user_word.senses)
                          IN  [pc |-> IF ids = <<>> THEN "list" ELSE "sense_links",
                               call |-> call,
                               word_id |-> aggregate.word.id,
                               sense_ids |-> ids,
                               offset |-> 0]
    /\ UNCHANGED GraphVars
    /\ SqlTablesUnchanged
    /\ SvcFrame

\* remove_from_my_network: remove_links_for_sense of the next sense
RemoveFromMyNetworkSenseLinks ==
    /\ svc.pc = "sense_links"
    /\ GraphBecomes(remove_links_for_sense(Head(svc.sense_ids)))
    /\ svc' = [svc EXCEPT !.sense_ids = Tail(@),
                          !.pc = IF Tail(svc.sense_ids) = <<>> THEN "list" ELSE @]
    /\ SqlTablesUnchanged
    /\ SvcFrame

\* remove_from_my_network: list_word_links of the next page
RemoveFromMyNetworkList ==
    /\ svc.pc = "list"
    /\ LET links == list_word_links([user_id |-> svc.call.user_id, word_id |-> svc.word_id,
                                     kind |-> None, limit |-> LINK_PAGE_LIMIT,
                                     offset |-> svc.offset])
       IN  svc' = IF ~links.ok THEN SvcReturned(svc.call, links)
                  ELSE IF links.val = <<>> THEN [svc EXCEPT !.pc = "remove_row"]
                  ELSE [svc EXCEPT !.pc = "delete"] @@
                       [links |-> links.val, page |-> Len(links.val)]
    /\ UNCHANGED GraphVars
    /\ SqlTablesUnchanged
    /\ SvcFrame

\* remove_from_my_network: delete_word_link of the next link of the page, and
\* offset += links.len() after the last
RemoveFromMyNetworkDelete ==
    /\ svc.pc = "delete"
    /\ LET link == Head(svc.links)
           o == delete_word_link(svc.call.user_id, link.word_a_id, link.word_b_id,
                                 link.kind)
       IN  /\ GraphBecomes(o)
           /\ svc' = IF ~o.ret.ok THEN SvcReturned(svc.call, o.ret)
                     ELSE IF Tail(svc.links) # <<>> THEN [svc EXCEPT !.links = Tail(@)]
                     ELSE [pc |-> "list", call |-> svc.call, word_id |-> svc.word_id,
                           sense_ids |-> svc.sense_ids, offset |-> svc.offset + svc.page]
    /\ SqlTablesUnchanged
    /\ SvcFrame

\* remove_user_word: DELETE FROM user_words WHERE id = $1 AND user_id = $2
remove_user_word(UW, user_id, user_word_id) ==
    [i \in {k \in DOMAIN UW : ~(k = user_word_id /\ UW[k].user_id = user_id)} |-> UW[i]]

\* remove_from_my_network: remove_user_word
RemoveFromMyNetworkRow ==
    /\ svc.pc = "remove_row"
    /\ userWords' = remove_user_word(userWords, svc.call.user_id, svc.call.user_word_id)
    /\ svc' = SvcReturned(svc.call, Ok(Unit))
    /\ UNCHANGED <<wordsTable, wordTx, wordRet, wordSeq, userSenses, sqlWrites, sqlNextId, txn>>
    /\ UNCHANGED GraphVars
    /\ SvcFrame

\* remove_user_sense: the DELETE ... USING user_words ... RETURNING and the
\* commit; what the call returns and the rows afterwards
remove_user_sense(UW, US, user_id, sense_id) ==
    IF /\ sense_id \in DOMAIN US
       /\ US[sense_id].user_word_id \in DOMAIN UW
       /\ UW[US[sense_id].user_word_id].user_id = user_id
    THEN LET row == US[sense_id] IN
         [rows |-> [i \in DOMAIN US \ {sense_id} |-> US[i]],
          ret |-> UserSenseFromParts(Some(sense_id), row.text, row.is_primary,
                                     row.sort_order, row.note)]
    ELSE [rows |-> US, ret |-> Err("Database")]

\* remove_sense: remove_user_sense
RemoveSenseRow(user_id, sense_id) ==
    /\ svc.pc = "idle"
    /\ LET call == [op |-> "remove_sense", user_id |-> user_id, sense_id |-> sense_id]
           removed == remove_user_sense(userWords, userSenses, user_id, sense_id)
       IN  /\ userSenses' = removed.rows
           /\ svc' = IF ~removed.ret.ok THEN SvcReturned(call, removed.ret)
                     ELSE IF removed.ret.val.id = None
                          THEN SvcReturned(call, removed.ret)
                          ELSE [pc |-> "removed_row", call |-> call,
                                removed |-> removed.ret.val]
    /\ UNCHANGED <<wordsTable, userWords, wordTx, wordRet, wordSeq, sqlWrites, sqlNextId, txn>>
    /\ UNCHANGED GraphVars
    /\ SvcFrame

\* remove_sense: remove_links_for_sense
RemoveSenseLinks ==
    /\ svc.pc = "removed_row"
    /\ GraphBecomes(remove_links_for_sense(svc.removed.id[1]))
    /\ svc' = SvcReturned(svc.call, Ok(svc.removed))
    /\ SqlTablesUnchanged
    /\ SvcFrame

\* the repository call the service is about to make fails (the backend is
\* unreachable or the call times out) and "?" returns the error
BackendFails ==
    /\ svc.pc \in {"sense_links", "list", "delete", "remove_row", "removed_row"}
    /\ svc' = SvcReturned(svc.call,
                          IF svc.pc = "remove_row" THEN Err("Database") ELSE Err("Graph"))
    /\ UNCHANGED GraphVars
    /\ SqlTablesUnchanged
    /\ SvcFrame

ServiceInit ==
    /\ wordsTable = SvcWordsTable
    /\ userWords = SvcUserWords
    /\ userSenses = SvcUserSenses
    /\ sqlNextId = Cardinality(DOMAIN userSenses) + 1
    /\ sqlWrites = <<>>
    /\ txn = <<>>
    /\ wordTx = <<>>
    /\ wordRet = NoCall
    /\ wordSeq = <<>>
    /\ GraphIdle
    /\ svc = [pc |-> "idle"]
    /\ CanonIdle
    /\ TagsIdle
    /\ DomainIdle
    /\ RwtIdle

\* links made before the service call
ServiceSetup ==
    /\ svc.pc = "idle"
    /\ \/ \E u \in SvcUsers, a \in GFewWords, b \in GFewWords, k \in WordLinkKinds :
             CreateWordLink(u, a, b, k, None)
       \/ \E u \in SvcUsers, s \in GSenses, t \in GFewWords, k \in SenseWordLinkKinds :
             CreateSenseWordLink(u, s, 1, t, k, None)

ServiceNext ==
    \/ ServiceSetup
    \/ \E u \in SvcUsers, i \in DOMAIN SvcUserWords : RemoveFromMyNetworkFind(u, i)
    \/ RemoveFromMyNetworkSenseLinks
    \/ RemoveFromMyNetworkList
    \/ RemoveFromMyNetworkDelete
    \/ RemoveFromMyNetworkRow
    \/ \E u \in SvcUsers, s \in GSenses : RemoveSenseRow(u, s)
    \/ RemoveSenseLinks
    \/ BackendFails

ServiceSpec == ServiceInit /\ [][ServiceNext]_vars

(***************************************************************************)
(* service/word.rs: WordService::add_to_my_network, one step per call of a *)
(* repository, run by one caller who invokes it again after it returned.   *)
(* util/validation.rs: its validators (normalize_tags there is the code of *)
(* the domain's normalize_tags).  svc.done holds the finished invocations. *)
(***************************************************************************)
MaxAddRuns == 2

\* util::validation::validate_non_empty_text
validate_non_empty_text(text) ==
    LET value == Trim(text) IN
    IF value = <<>> THEN Err("Blank")
    ELSE IF Len(value) > MAX_SENSE_TEXT_LENGTH THEN ErrWith("TextTooLong", Len(value))
    ELSE Ok(value)

\* util::validation::validate_note
validation_validate_note(note) ==
    IF note = None THEN Ok(None)
    ELSE LET trimmed == Trim(note[1]) IN
         IF trimmed = <<>> THEN Err("Blank")
         ELSE IF Len(trimmed) > MAX_NOTE_LENGTH THEN ErrWith("NoteTooLong", Len(trimmed))
         ELSE Ok(Some(trimmed))

build_new_sense_payload(user_word_id, sense) ==
    LET text == validate_non_empty_text(sense.text)
        note == validation_validate_note(sense.note)
    IN  IF ~text.ok THEN Err("Validation")
        ELSE IF ~note.ok THEN Err("Validation")
        ELSE Ok([user_word_id |-> user_word_id, text |-> text.val,
                 is_primary |-> sense.is_primary, sort_order |-> sense.sort_order,
                 note |-> note.val])

\* add_user_sense run alone: the INSERT, the demotion of the other senses of
\* the user word when the new sense is primary, and the commit
add_user_sense(US, id, sense) ==
    LET row == [user_word_id |-> sense.user_word_id, text |-> sense.text,
                is_primary |-> sense.is_primary, sort_order |-> sense.sort_order,
                note |-> sense.note]
        created == UserSenseFromParts(Some(id), row.text, row.is_primary,
                                      row.sort_order, row.note)
    IN  IF ~created.ok THEN [rows |-> US, ret |-> Err("Database")]
        ELSE [rows |-> [i \in DOMAIN US \cup {id} |->
                           IF i = id THEN row
                           ELSE IF created.val.is_primary
                                   /\ US[i].user_word_id = sense.user_word_id
                                THEN [US[i] EXCEPT !.is_primary = FALSE]
                                ELSE US[i]],
              ret |-> created]

AddSenseInputs ==
    {None} \cup {Some([text |-> <<"x">>, is_primary |-> p, sort_order |-> 0, note |-> None]) :
                    p \in BOOLEAN}

AddWordInputs ==
    [text : {<<"a">>, <<"B">>}, tags : {<<>>, <<<<"t">>>>}, note : {None},
     first_sense : AddSenseInputs]

AddReturned(call, res, failed) ==
    [pc |-> "idle", done |-> Append(svc.done, [call |-> call, res |-> res, failed |-> failed])]

AddFrame ==
    UNCHANGED <<CanonVars, TagsVars, DomainVars, RwtVars, wordTx, wordRet, sqlWrites, txn>>

\* add_to_my_network: the validators and upsert_user_word (the two upserts in
\* one transaction, the commit, then find_user_word)
AddToMyNetworkUpsert(user_id, input) ==
    /\ svc.pc = "idle"
    /\ Len(svc.done) < MaxAddRuns
    /\ LET call == [op |-> "add_to_my_network", user_id |-> user_id, input |-> input]
           canonical == CanonicalKeyNew(input.text)
           tags == normalize_tags(input.tags)
           note == validation_validate_note(input.note)
       IN  IF ~canonical.ok \/ ~tags.ok \/ ~note.ok
           THEN /\ svc' = AddReturned(call, Err("Validation"), FALSE)
                /\ UNCHANGED <<wordsTable, userWords, wordSeq>>
           ELSE LET written == UpsertWordsRow(input.text, canonical.val)
                    word == map_word_row(written.id, written.row)
                    assoc == UpsertUserWordsRow(user_id, written.id, tags.val, note.val)
                IN  IF ~word.ok
                    THEN /\ svc' = AddReturned(call, Err("Database"), FALSE)
                         /\ wordSeq' = [wordSeq EXCEPT !.words = @ + 1, !.calls = @ + 1]
                         /\ UNCHANGED <<wordsTable, userWords>>
                    ELSE /\ wordsTable' = Overlay([i \in {written.id} |-> written.row],
                                                  wordsTable)
                         /\ userWords' = Overlay([i \in {assoc.id} |-> assoc.row], userWords)
                         /\ wordSeq' = [wordSeq EXCEPT !.words = @ + 1,
                                                       !.user_words = @ + 1,
                                                       !.calls = @ + 1]
                         /\ \E found \in find_user_word(wordsTable', userWords', userSenses,
                                                        user_id, assoc.id) :
                               svc' = IF ~found.ok THEN AddReturned(call, found, FALSE)
                                      ELSE IF found.val = None
                                      THEN AddReturned(call, Err("Database"), FALSE)
                                      ELSE [pc |-> "node_word", done |-> svc.done,
                                            call |-> call,
                                            word_id |-> found.val[1].word.id,
                                            user_word_id |-> assoc.id]
    /\ UNCHANGED <<userSenses, sqlNextId>>
    /\ UNCHANGED GraphVars
    /\ AddFrame

\* add_to_my_network: upsert_node_word, then build_new_sense_payload
AddToMyNetworkNodeWord ==
    /\ svc.pc = "node_word"
    /\ GraphBecomes(upsert_node_word(svc.word_id))
    /\ LET first_sense == svc.call.input.first_sense IN
       IF first_sense = None THEN svc' = [svc EXCEPT !.pc = "find"]
       ELSE LET new_sense == build_new_sense_payload(svc.user_word_id, first_sense[1]) IN
            svc' = IF ~new_sense.ok THEN AddReturned(svc.call, new_sense, FALSE)
                   ELSE [svc EXCEPT !.pc = "add_sense"] @@ [new_sense |-> new_sense.val]
    /\ UNCHANGED <<wordsTable, userWords, wordSeq, userSenses, sqlNextId>>
    /\ AddFrame

\* add_to_my_network: add_user_sense
AddToMyNetworkAddSense ==
    /\ svc.pc = "add_sense"
    /\ LET added == add_user_sense(userSenses, sqlNextId, svc.new_sense) IN
       /\ userSenses' = added.rows
       /\ sqlNextId' = sqlNextId + 1
       /\ svc' = IF ~added.ret.ok THEN AddReturned(svc.call, added.ret, FALSE)
                 ELSE IF added.ret.val.id = None THEN [svc EXCEPT !.pc = "find"]
                 ELSE [svc EXCEPT !.pc = "node_sense"] @@ [sense_id |-> added.ret.val.id[1]]
    /\ UNCHANGED <<wordsTable, userWords, wordSeq>>
    /\ UNCHANGED GraphVars
    /\ AddFrame

\* add_to_my_network: upsert_node_sense
AddToMyNetworkNodeSense ==
    /\ svc.pc = "node_sense"
    /\ GraphBecomes(upsert_node_sense(svc.sense_id, svc.call.user_id))
    /\ svc' = [svc EXCEPT !.pc = "find"]
    /\ UNCHANGED <<wordsTable, userWords, wordSeq, userSenses, sqlNextId>>
    /\ AddFrame

\* add_to_my_network: the closing find_user_word
AddToMyNetworkFind ==
    /\ svc.pc = "find"
    /\ \E found \in find_user_word(wordsTable, userWords, userSenses,
                                   svc.call.user_id, svc.user_word_id) :
          svc' = AddReturned(svc.call,
                             IF ~found.ok THEN found
                             ELSE IF found.val = None THEN Err("NotInNetwork")
                             ELSE Ok(found.val[1]),
                             FALSE)
    /\ UNCHANGED <<wordsTable, userWords, wordSeq, userSenses, sqlNextId>>
    /\ UNCHANGED GraphVars
    /\ AddFrame

\* the repository call add_to_my_network is about to make fails (the backend
\* is unreachable, the call times out) and "?" returns the error; a failing
\* upsert_user_word rolls its transaction back
AddToMyNetworkFails(user_id, input) ==
    /\ \/ svc.pc \in {"node_word", "add_sense", "node_sense", "find"}
          /\ svc' = AddReturned(svc.call,
                                IF svc.pc \in {"node_word", "node_sense"}
                                THEN Err("Graph") ELSE Err("Database"),
                                TRUE)
       \/ /\ svc.pc = "idle"
          /\ Len(svc.done) < MaxAddRuns
          /\ svc' = AddReturned([op |-> "add_to_my_network", user_id |-> user_id,
                                 input |-> input],
                                Err("Database"), TRUE)
    /\ UNCHANGED <<wordsTable, userWords, wordSeq, userSenses, sqlNextId>>
    /\ UNCHANGED GraphVars
    /\ AddFrame

AddInit ==
    /\ wordsTable = <<>>
    /\ userWords = <<>>
    /\ userSenses = <<>>
    /\ wordSeq = [words |-> 1, user_words |-> 1, calls |-> 0]
    /\ sqlNextId = 1
    /\ sqlWrites = <<>>
    /\ txn = <<>>
    /\ wordTx = <<>>
    /\ wordRet = NoCall
    /\ svc = [pc |-> "idle", done |-> <<>>]
    /\ GraphIdle
    /\ CanonIdle
    /\ TagsIdle
    /\ DomainIdle
    /\ RwtIdle

AddNext ==
    \/ \E u \in SvcUsers, input \in AddWordInputs : AddToMyNetworkUpsert(u, input)
    \/ AddToMyNetworkNodeWord
    \/ AddToMyNetworkAddSense
    \/ AddToMyNetworkNodeSense
    \/ AddToMyNetworkFind
    \/ \E u \in SvcUsers, input \in AddWordInputs : AddToMyNetworkFails(u, input)

AddSpec == AddInit /\ [][AddNext]_vars

(***************************************************************************)
(* CanonicalKey::new beside canonicalize: both are called on one text.  The *)
(* texts hold the letter s, a backslash, a tab and a line feed.            *)
(***************************************************************************)
KeyAlphabet == {"a", "s", " ", "\t", "\n", "\\", "-"}
MaxKeyTextLen == 4

KeyInit ==
    /\ canonIn \in TextsUpTo(KeyAlphabet, MaxKeyTextLen)
    /\ canonOut = Pending
    /\ keyOut = Pending
    /\ TagsIdle
    /\ DomainIdle
    /\ GraphIdle
    /\ SqlIdle
    /\ RwtIdle
    /\ WordIdle
    /\ SvcIdle

CanonicalKeyNewCall ==
    /\ keyOut = Pending
    /\ keyOut' = CanonicalKeyNew(canonIn)
    /\ UNCHANGED <<canonIn, canonOut>>
    /\ UNCHANGED <<TagsVars, DomainVars, GraphVars, SqlVars, RwtVars, WordVars, SvcVars>>

KeyNext ==
    \/ CanonicalizeCall
    \/ CanonicalKeyNewCall

KeySpec == KeyInit /\ [][KeyNext]_vars

(***************************************************************************)
(* service/sense.rs: SenseService::remove_sense invoked again, with the    *)
(* same arguments, by a caller whose first invocation failed at the graph  *)
(* step.  The call of the second invocation carries attempt 2.             *)
(***************************************************************************)
RemoveSenseAgain ==
    /\ svc.pc = "returned"
    /\ svc.call.op = "remove_sense"
    /\ "attempt" \notin DOMAIN svc.call
    /\ svc.res = Err("Graph")
    /\ LET call == svc.call @@ [attempt |-> 2]
           removed == remove_user_sense(userWords, userSenses, call.user_id, call.sense_id)
       IN  /\ userSenses' = removed.rows
           /\ svc' = IF ~removed.ret.ok THEN SvcReturned(call, removed.ret)
                     ELSE IF removed.ret.val.id = None
                          THEN SvcReturned(call, removed.ret)
                          ELSE [pc |-> "removed_row", call |-> call,
                                removed |-> removed.ret.val]
    /\ UNCHANGED <<wordsTable, userWords, wordTx, wordRet, wordSeq, sqlWrites, sqlNextId, txn>>
    /\ UNCHANGED GraphVars
    /\ SvcFrame

RemoveSenseNext ==
    \/ ServiceSetup
    \/ \E u \in SvcUsers, s \in GSenses : RemoveSenseRow(u, s)
    \/ RemoveSenseLinks
    \/ BackendFails
    \/ RemoveSenseAgain

RemoveSenseSpec == ServiceInit /\ [][RemoveSenseNext]_vars

(***************************************************************************)
(* Claims about canonicalize (CanonSpec)                                   *)
(***************************************************************************)
HasDoubleDash(s) == \E i \in 1..(Len(s) - 1) : s[i] = "-" /\ s[i + 1] = "-"

\* C4: whenever canonicalize succeeds with r, canonicalize(r) succeeds with r
\* again, r neither starts nor ends with a dash, holds no whitespace character
\* and holds no two consecutive dashes.
C4_CanonIdempotentClean ==
    (canonOut # Pending /\ canonOut.ok) =>
        LET r == canonOut.val IN
        /\ canonicalize(r) = Ok(r)
        /\ (r # <<>> => Head(r) # "-" /\ r[Len(r)] # "-")
        /\ \A i \in 1..Len(r) : r[i] \notin Whitespace
        /\ ~HasDoubleDash(r)

\* a successful call on a text with an upper-case letter, a tab, a dash run and
\* punctuation, whose result keeps a dash
C4_Witness ==
    /\ canonOut # Pending
    /\ canonOut.ok
    /\ {"A", "\t", "!"} \subseteq Range(canonIn)
    /\ HasDoubleDash(canonIn)
    /\ "-" \in Range(canonOut.val)

\* The seven steps of the reference algorithm, each written on its own.
RECURSIVE RefCollapseWhitespace(_)
RefCollapseWhitespace(s) ==
    IF s = <<>> THEN <<>>
    ELSE IF Head(s) \notin Whitespace THEN <<Head(s)>> \o RefCollapseWhitespace(Tail(s))
    ELSE IF Len(s) >= 2 /\ s[2] \in Whitespace THEN RefCollapseWhitespace(Tail(s))
    ELSE <<" ">> \o RefCollapseWhitespace(Tail(s))

RefIsKept(c) == c = "-" \/ c \notin AsciiPunctuation
RefDropPunctuation(s) == SelectSeq(s, RefIsKept)

RECURSIVE RefCollapseDashes(_)
RefCollapseDashes(s) ==
    IF Len(s) < 2 THEN s
    ELSE IF s[1] = "-" /\ s[2] = "-" THEN RefCollapseDashes(Tail(s))
    ELSE <<Head(s)>> \o RefCollapseDashes(Tail(s))

RefCanonicalize(text) ==
    LET s1 == Trim(text) IN
    IF s1 = <<>> THEN Err("Empty")
    ELSE LET s2 == RefCollapseWhitespace(s1)
             s3 == TrimMatches(s2, AsciiPunctuation)
         IN  IF s3 = <<>> THEN Err("Empty")
             ELSE LET s4 == ToLowercase(s3)
                      s5 == ReplaceSpaceWithDash(s4)
                      s6 == RefCollapseDashes(RefDropPunctuation(s5))
                      s7 == TrimMatches(s6, {"-"})
                  IN  IF s7 = <<>> THEN Err("Empty") ELSE Ok(s7)

OnlyWhitespaceAndPunctuation(s) ==
    \A i \in 1..Len(s) : s[i] \in Whitespace \cup AsciiPunctuation

\* the three examples of the canonicalizer tests
CanonExamples ==
    /\ canonicalize(<<" ", " ", "G", "r", "a", "p", "h", " ", " ", " ",
                      "D", "a", "t", "a", "b", "a", "s", "e", " ", " ">>)
         = Ok(<<"g", "r", "a", "p", "h", "-", "d", "a", "t", "a", "b", "a", "s", "e">>)
    /\ canonicalize(<<"*", "*", "H", "e", "l", "l", "o", ",", " ",
                      "W", "o", "r", "l", "d", "!", "!">>)
         = Ok(<<"h", "e", "l", "l", "o", "-", "w", "o", "r", "l", "d">>)
    /\ canonicalize(<<" ", " ", " ">>) = Err("Empty")

\* C5: canonicalize returns what the seven-step reference algorithm returns; it
\* fails, with Empty, exactly when the text holds nothing but whitespace and
\* ASCII punctuation, and never returns an empty string.
C5_CanonMatchesReference ==
    canonOut # Pending =>
        /\ canonOut = RefCanonicalize(canonIn)
        /\ (~canonOut.ok <=> OnlyWhitespaceAndPunctuation(canonIn))
        /\ (~canonOut.ok => canonOut.err = "Empty")
        /\ (canonOut.ok => canonOut.val # <<>>)
        /\ CanonExamples

\* a successful call where punctuation sits between two words separated by
\* whitespace and the text has an upper-case letter
C5_Witness ==
    /\ canonOut # Pending
    /\ canonOut.ok
    /\ \E i \in 2..(Len(canonIn) - 1) :
          /\ canonIn[i] = "!"
          /\ canonIn[i - 1] \in Whitespace
          /\ canonIn[i + 1] \in Whitespace
    /\ "A" \in Range(canonIn)
    /\ Len(canonOut.val) >= 3


(***************************************************************************)
(* Claims about normalize_tags (TagsSpec)                                  *)
(***************************************************************************)
IsValidTag(raw) == Trim(raw) # <<>> /\ TagRegexIsMatch(Trim(raw))

\* the trimmed entries that no earlier entry equals ignoring case, in input order
FirstOccurrences(tags) ==
    LET ts == [i \in 1..Len(tags) |-> Trim(tags[i])]
        idx == [i \in 1..Len(tags) |-> i]
        IsFirst(i) == \A j \in 1..(i - 1) : ~EqIgnoreAsciiCase(ts[j], ts[i])
        kept == SelectSeq(idx, IsFirst)
    IN  [k \in 1..Len(kept) |-> ts[kept[k]]]

\* C6: on a list of valid tags normalize_tags returns the trimmed first
\* occurrences in input order (so no two results are equal ignoring case), and
\* TagLimitExceeded exactly when there are more than 20 of them; on any other
\* list it returns InvalidTag for the first blank or pattern-violating entry.
C6_NormalizeTags ==
    tagsOut # Pending =>
        LET bad == {i \in 1..Len(tagsIn) : ~IsValidTag(tagsIn[i])}
            expected == FirstOccurrences(tagsIn)
        IN  IF bad = {}
            THEN /\ (Len(expected) > MAX_TAGS) <=>
                        (~tagsOut.ok /\ tagsOut.err = "TagLimitExceeded")
                 /\ (Len(expected) <= MAX_TAGS) => tagsOut = Ok(expected)
                 /\ tagsOut.ok =>
                        \A i, j \in 1..Len(tagsOut.val) :
                            i # j => ~EqIgnoreAsciiCase(tagsOut.val[i], tagsOut.val[j])
            ELSE LET first == CHOOSE i \in bad : \A j \in bad : i <= j IN
                 /\ ~tagsOut.ok
                 /\ tagsOut.err = "InvalidTag"
                 /\ Trim(tagsOut.val) = Trim(tagsIn[first])

\* a list longer than the limit that is accepted because a duplicate brings
\* the number of distinct tags down to the limit
C6_Witness ==
    /\ tagsOut # Pending
    /\ tagsOut.ok
    /\ Len(tagsIn) > MAX_TAGS
    /\ Len(tagsOut.val) = MAX_TAGS
    /\ tagsOut.val[1] = FreshTag(1)


(***************************************************************************)
(* Claims about the aggregate (Spec)                                       *)
(***************************************************************************)
PrimaryCount(ss) == Cardinality({i \in 1..Len(ss) : ss[i].is_primary})

\* C1: in every state reached by add_sense, set_primary_by_id,
\* set_primary_by_index and remove_sense_by_id, at most one sense is primary.
C1_AtMostOnePrimary == PrimaryCount(senses) <= 1

\* C3: add_sense of a sense whose text equals an existing text ignoring case
\* returns DuplicateSenseText and leaves the senses as they were.
C3_DuplicateRejectedUnchanged ==
    [][(/\ domCall'.op = "add_sense"
        /\ \E i \in 1..Len(senses) :
               EqIgnoreAsciiCase(senses[i].text, domCall'.arg.text))
       => (/\ ~domRet'.ok
           /\ domRet'.err = "DuplicateSenseText"
           /\ domRet'.val = domCall'.arg.text
           /\ senses' = senses)]_vars

\* a primary sense was rejected for a text that differs from an existing one
\* only in case, while another sense of the aggregate is primary
C3_Witness ==
    /\ domCall.op = "add_sense"
    /\ domCall.arg.is_primary
    /\ ~domRet.ok
    /\ domRet.err = "DuplicateSenseText"
    /\ Len(senses) >= 2
    /\ PrimaryCount(senses) = 1
    /\ \E i \in 1..Len(senses) :
          /\ senses[i].text # domCall.arg.text
          /\ EqIgnoreAsciiCase(senses[i].text, domCall.arg.text)

(***************************************************************************)
(* Claims about the sense transactions (SenseTxnSpec)                      *)
(***************************************************************************)
\* the call of transaction t is add_user_sense with is_primary = true or
\* update_user_sense with update.is_primary = Some(true)
SetsPrimary(t) ==
    /\ txn[t].pc # "idle"
    /\ \/ txn[t].call.op = "add_user_sense" /\ txn[t].call.sense.is_primary
       \/ /\ txn[t].call.op = "update_user_sense"
          /\ txn[t].call.update.is_primary = Some(TRUE)

PrimaryRows(user_word_id) ==
    {id \in DOMAIN userSenses : /\ userSenses[id].user_word_id = user_word_id
                                /\ userSenses[id].is_primary}

\* C2: once two concurrent transactions that each make a sense of the same user
\* word primary have both finished, at most one committed user_senses row of
\* that word has is_primary = TRUE
C2_AtMostOnePrimaryRow ==
    (\A t \in SqlTxns : SetsPrimary(t) /\ txn[t].pc = "done")
        => \A uw \in SqlUserWords : Cardinality(PrimaryRows(uw)) <= 1

(***************************************************************************)
(* Claims about the graph repository (WordLinkSpec, GraphSpec)             *)
(***************************************************************************)
ReturnedBy(op) == gRet.op = op
ReturnedOk(op) == gRet.op = op /\ gRet.res.ok
ReturnedErr(op, e) == gRet.op = op /\ ~gRet.res.ok /\ gRet.res.err = e

UnorderedPair(r) == {r.start.word_id, r.end.word_id}

\* the WORD_TO_WORD edges of one user and kind between two words, either way round
EdgesBetween(edges, user_id, kind, a, b) ==
    {r \in edges : r.user_id = user_id /\ r.kind = kind /\ UnorderedPair(r) = {a, b}}

\* what a create_word_link outcome says apart from the echoed argument order
EdgeOutcome(o) ==
    [wordNodes |-> o.wordNodes, wwEdges |-> o.wwEdges, relCount |-> o.relCount,
     link_id |-> o.ret.val.link_id]

\* C7: the graph holds at most one WORD_TO_WORD edge per user, kind and unordered
\* pair of words, every such edge runs from the smaller word id to the larger
\* one, a successful create_word_link returns the edge of its user and kind that
\* runs from its smaller to its larger argument, and create_word_link(u, a, b, k, n)
\* and create_word_link(u, b, a, k, n) leave the same graph and name the same edge
C7_OneEdgePerUnorderedPair ==
    /\ \A r \in wwEdges : r.start.word_id < r.end.word_id
    /\ \A r, q \in wwEdges :
           (r.user_id = q.user_id /\ r.kind = q.kind /\ UnorderedPair(r) = UnorderedPair(q))
               => r = q
    /\ ReturnedOk("create_word_link") =>
           LET rec == gRet.res.val IN
           \E r \in wwEdges :
               /\ r.id = rec.link_id
               /\ r.user_id = rec.user_id
               /\ r.kind = rec.kind
               /\ UnorderedPair(r) = {rec.word_a_id, rec.word_b_id}
               /\ EdgesBetween(wwEdges, rec.user_id, rec.kind,
                               rec.word_a_id, rec.word_b_id) = {r}
    /\ \A u \in GUsers, a \in GWords, b \in GWords, k \in WordLinkKinds, n \in GNotes :
           a # b =>
               /\ \A o \in create_word_link(u, a, b, k, n) : o.ret.ok
               /\ {EdgeOutcome(o) : o \in create_word_link(u, a, b, k, n)}
                      = {EdgeOutcome(o) : o \in create_word_link(u, b, a, k, n)}

\* a create_word_link given the larger word id first has matched the older of two
\* edges, which runs from the smaller id to the larger
C7_Witness ==
    /\ ReturnedOk("create_word_link")
    /\ gRet.res.val.word_a_id > gRet.res.val.word_b_id
    /\ gRet.res.val.link_id = 1
    /\ Cardinality(wwEdges) = 2
    /\ \E r \in wwEdges :
           /\ r.id = 1
           /\ r.start.word_id = gRet.res.val.word_b_id
           /\ r.end.word_id = gRet.res.val.word_a_id

\* the filter [C8] lists with: offset 0 and a limit above the number of edges
ListAllFilter(user_id, word_id, kind) ==
    [user_id |-> user_id, word_id |-> word_id, kind |-> kind,
     limit |-> Cardinality(wwEdges) + 1, offset |-> 0]

Lists(result, link_id) ==
    result.ok /\ \E i \in 1..Len(result.val) : result.val[i].link_id = link_id

\* C8: right after create_word_link(u, a, b, k, note) has succeeded,
\* list_word_links for user u with kind unspecified or k, offset 0 and a limit
\* above the number of edges returns the edge for word_id = a and for word_id = b
C8_ListedFromBothEndpoints ==
    ReturnedOk("create_word_link") =>
        LET rec == gRet.res.val IN
        \A w \in {rec.word_a_id, rec.word_b_id}, kind \in {None, Some(rec.kind)} :
            Lists(list_word_links(ListAllFilter(rec.user_id, w, kind)), rec.link_id)

\* C9: in every reachable graph, create_word_link with word_a_id = word_b_id
\* and create_sense_word_link with source_word_id = target_word_id have one
\* outcome: the business error SelfForbidden is returned and every node and
\* edge is left as it was
C9_SelfLinkForbidden ==
    /\ \A u \in GUsers, w \in GWords, k \in WordLinkKinds, n \in GNotes :
           \A o \in create_word_link(u, w, w, k, n) :
               /\ ~o.ret.ok
               /\ o.ret.err = "SelfForbidden"
               /\ o = GraphUntouched(o.ret)
    /\ \A u \in GUsers, s \in GSenses, w \in GWords, k \in SenseWordLinkKinds,
          n \in GNotes :
           \A o \in create_sense_word_link(u, s, w, w, k, n) :
               /\ ~o.ret.ok
               /\ o.ret.err = "SelfForbidden"
               /\ o = GraphUntouched(o.ret)

\* a self link was refused on a graph that holds nodes and edges of both kinds
C9_Witness ==
    /\ gRet.op \in {"create_word_link", "create_sense_word_link"}
    /\ ~gRet.res.ok
    /\ gRet.res.err = "SelfForbidden"
    /\ wwEdges # {}
    /\ swEdges # {}

\* C10: every create_sense_word_link with source_word_id # target_word_id
\* returns Ok with a record whose sense_id, source_word_id, target_word_id,
\* user_id and kind are the arguments, and afterwards exactly one SENSE_TO_WORD
\* edge of that user and kind runs from the sense to the target
C10_SenseLinkCreated ==
    [][\A u \in GUsers, s \in GSenses, src \in GFewWords, t \in GFewWords,
          k \in SenseWordLinkKinds, n \in GNotes :
           (src # t /\ CreateSenseWordLink(u, s, src, t, k, n))
               => /\ gRet'.res.ok
                  /\ gRet'.res.val.sense_id = s
                  /\ gRet'.res.val.source_word_id = src
                  /\ gRet'.res.val.target_word_id = t
                  /\ gRet'.res.val.user_id = u
                  /\ gRet'.res.val.kind = k
                  /\ Cardinality({r \in swEdges' : /\ r.start.sense_id = s
                                                   /\ r.start.user_id = u
                                                   /\ r.end.word_id = t
                                                   /\ r.user_id = u
                                                   /\ r.kind = k}) = 1]_vars

(***************************************************************************)
(* Claims about run_with_timeout (RwtSpec)                                 *)
(***************************************************************************)
RwtFailedWith(e) == rwt.pc = "returned" /\ ~rwt.ret.ok /\ rwt.ret.err = e

\* C11: a call still running has not passed the configured timeout, in either
\* phase; a call that returned did so within the timeout or returned Timeout;
\* a timeout is not returned as Database and a backend failure is not returned
\* as Timeout
C11_TimeoutBoundsEveryPhase ==
    /\ rwt.pc \in {"executing", "fetching"} => rwt.elapsed <= TimeoutTicks
    /\ rwt.pc = "returned" => (rwt.elapsed <= TimeoutTicks \/ RwtFailedWith("Timeout"))
    /\ (rwt.pc = "returned" /\ rwt.cause = "timeout") => ~RwtFailedWith("Database")
    /\ (rwt.pc = "returned" /\ rwt.cause = "backend_failure") => ~RwtFailedWith("Timeout")

\* the user words of the aggregates a search returned
ReturnedUserWords(res) == {res.val[k].user_word.id[1] : k \in 1..Len(res.val)}

SearchedWith(scope) ==
    /\ wordRet # NoCall
    /\ wordRet.call.op = "search"
    /\ wordRet.call.params.scope = scope
    /\ Trim(wordRet.call.params.query) # <<>>
    /\ wordRet.call.params.offset = 0
    /\ wordRet.res.ok

\* C12: for every user, stored word set and non-empty query, the user words a
\* search of scope Both returns are those scope Word matches together with
\* those scope Sense matches
C12_BothIsUnionOfScopes ==
    SearchedWith("Both") =>
        LET p == wordRet.call.params IN
        ReturnedUserWords(wordRet.res)
            = SearchMatches(wordsTable, userWords, userSenses, p.user_id, p.query, "Word")
              \cup SearchMatches(wordsTable, userWords, userSenses, p.user_id, p.query, "Sense")

\* find_user_word was called on a user word the user owns, and has returned
FoundUserWord ==
    /\ wordRet # NoCall
    /\ wordRet.call.op = "find_user_word"
    /\ wordRet.call.user_word_id \in aggregate_query(wordsTable, userWords, wordRet.call.user_id)

SensesOf(user_word_id) == {i \in DOMAIN userSenses : userSenses[i].user_word_id = user_word_id}

\* the stored rows of the user word break an invariant of the aggregate
StoredDuplicateText(user_word_id) ==
    \E i, j \in SensesOf(user_word_id) :
        /\ i # j
        /\ EqIgnoreAsciiCase(userSenses[i].text, userSenses[j].text)

StoredManyPrimary(user_word_id) ==
    Cardinality({i \in SensesOf(user_word_id) : userSenses[i].is_primary}) > 1

StoredBadTags(user_word_id) ==
    LET tags == userWords[user_word_id].tags IN
    \/ \E k \in 1..Len(tags) : ~TagRegexIsMatch(Trim(tags[k]))
    \/ Len(tags) > MAX_TAGS

StoredBadText(user_word_id) ==
    LET note == userWords[user_word_id].note IN
    \/ note # None /\ (Trim(note[1]) = <<>> \/ Len(Trim(note[1])) > MAX_NOTE_LENGTH)
    \/ \E i \in SensesOf(user_word_id) :
          \/ Trim(userSenses[i].text) = <<>>
          \/ Len(Trim(userSenses[i].text)) > MAX_SENSE_TEXT_LENGTH

\* every sense row of the user word has its text
StoredDecodes(user_word_id) ==
    \A i \in SensesOf(user_word_id) : userSenses[i].text # SqlNull

StoredViolation(user_word_id) ==
    \/ StoredDuplicateText(user_word_id)
    \/ StoredManyPrimary(user_word_id)
    \/ StoredBadTags(user_word_id)
    \/ StoredBadText(user_word_id)

\* C13: find_user_word returns a domain error, and no aggregate, whenever the
\* stored rows of the user word violate an invariant of the aggregate (two
\* senses of equal text ignoring case, more than one primary sense, an invalid
\* or over-limit tag list, a blank or over-long note or sense text)
C13_ViolationIsAnError ==
    (/\ FoundUserWord
     /\ StoredDecodes(wordRet.call.user_word_id)
     /\ StoredViolation(wordRet.call.user_word_id)) => ~wordRet.res.ok

\* search has returned, and its page held a user word whose senses do not decode
SearchedUndecodable ==
    /\ wordRet # NoCall
    /\ wordRet.call.op = "search"
    /\ LET p == wordRet.call.params
           matched == SearchMatches(wordsTable, userWords, userSenses,
                                    p.user_id, p.query, p.scope)
           page == SkipLimit(OrderByCanonicalKey(wordsTable, userWords, matched),
                             p.offset, p.limit)
       IN  \E k \in 1..Len(page) : ~StoredDecodes(page[k])

\* C14: when the stored sense collection of a user word cannot be decoded,
\* find_user_word and search return an error, never Ok with fewer senses
C14_UndecodableIsAnError ==
    /\ (FoundUserWord /\ ~StoredDecodes(wordRet.call.user_word_id)) => ~wordRet.res.ok
    /\ SearchedUndecodable => ~wordRet.res.ok

\* the step is tx.commit() of the upsert_user_word of connection c
CommitsUpsert(c) == wordTx[c].pc = "assoc_written" /\ wordTx'[c].pc = "committed"

\* C15: upsert_user_word is atomic over its two writes: no step of the call
\* before its commit changes what other connections read, the commit installs
\* the words row and the user_words row together, and a call that fails
\* after its first write leaves both tables as they were
C15_UpsertUserWordAtomic ==
    [][\A c \in WordConns :
          wordTx'[c] # wordTx[c] =>
              IF CommitsUpsert(c)
              THEN /\ wordTx[c].word.id \in DOMAIN wordsTable'
                   /\ wordsTable'[wordTx[c].word.id] = wordTx[c].word.row
                   /\ wordTx[c].assoc.id \in DOMAIN userWords'
                   /\ userWords'[wordTx[c].assoc.id] = wordTx[c].assoc.row
              ELSE UNCHANGED <<wordsTable, userWords>>]_vars

\* an upsert_user_word of a new word failed after its first write, and no row
\* of the word is stored
C15_Witness ==
    /\ wordRet # NoCall
    /\ wordRet.call.op = "upsert_user_word"
    /\ wordRet.res = Err("Database")
    /\ \A i \in DOMAIN wordsTable :
          wordsTable[i].canonical_key # wordRet.call.payload.canonical_key

\* the step is the return of an upsert_word call
ReturnsUpsertWord == wordSeq'.calls # wordSeq.calls /\ wordTx' = wordTx

\* the step is the return of the upsert_user_word of connection c
ReturnsUpsertUserWord(c) == wordTx[c].pc = "committed" /\ wordTx'[c].pc = "idle"

WordOfKey(W, canonical_key) == {i \in DOMAIN W : W[i].canonical_key = canonical_key}

UserWordOfPair(UW, user_id, word_id) ==
    {i \in DOMAIN UW : UW[i].user_id = user_id /\ UW[i].word_id = word_id}

OneRowPerKey ==
    /\ \A i, j \in DOMAIN wordsTable :
          wordsTable[i].canonical_key = wordsTable[j].canonical_key => i = j
    /\ \A i, j \in DOMAIN userWords :
          (/\ userWords[i].user_id = userWords[j].user_id
           /\ userWords[i].word_id = userWords[j].word_id) => i = j

\* every stored row keeps its id, key and creation time; the senses stay
RowsKeepIdentity ==
    /\ \A i \in DOMAIN wordsTable :
          /\ i \in DOMAIN wordsTable'
          /\ wordsTable'[i].canonical_key = wordsTable[i].canonical_key
          /\ wordsTable'[i].created_at = wordsTable[i].created_at
    /\ \A i \in DOMAIN userWords :
          /\ i \in DOMAIN userWords'
          /\ userWords'[i].user_id = userWords[i].user_id
          /\ userWords'[i].word_id = userWords[i].word_id
    /\ userSenses' = userSenses

\* upsert_word of a stored key returns the stored id, key and creation time
\* with the new text, which is the text stored afterwards
RepeatedUpsertWord ==
    ReturnsUpsertWord =>
        \A i \in WordOfKey(wordsTable, wordRet'.call.canonical) :
            /\ wordRet'.res = Ok([id |-> i, text |-> wordRet'.call.text,
                                  canonical_key |-> wordsTable[i].canonical_key,
                                  created_at |-> wordsTable[i].created_at])
            /\ wordsTable' = [wordsTable EXCEPT ![i].text = wordRet'.call.text]

\* the commit of upsert_user_word stores the text, tags and note of its payload
\* in the one row of the key and the one row of the pair
CommitStoresPayload(c) ==
    CommitsUpsert(c) =>
        LET payload == wordTx[c].payload IN
        \A i \in WordOfKey(wordsTable', payload.canonical_key) :
            /\ wordsTable'[i].text = payload.word_text
            /\ \A k \in UserWordOfPair(userWords', payload.user_id, i) :
                  /\ userWords'[k].tags = payload.tags
                  /\ userWords'[k].note = payload.note
                  /\ k \in DOMAIN userWords => userWords' = [userWords EXCEPT ![k] = userWords'[k]]
            /\ i \in DOMAIN wordsTable => wordsTable' = [wordsTable EXCEPT ![i].text = payload.word_text]

\* upsert_user_word returns the aggregate of the stored rows
ReturnedAggregate(c) ==
    (ReturnsUpsertUserWord(c) /\ wordRet'.res.ok) =>
        LET payload == wordTx[c].payload
            agg == wordRet'.res.val
        IN  /\ agg.word.id \in WordOfKey(wordsTable, payload.canonical_key)
            /\ agg.word.canonical_key = payload.canonical_key
            /\ agg.word.created_at = wordsTable[agg.word.id].created_at
            /\ agg.word.text = wordsTable[agg.word.id].text
            /\ agg.user_word.id[1] \in UserWordOfPair(userWords, payload.user_id, agg.word.id)
            /\ agg.user_word.tags = userWords[agg.user_word.id[1]].tags
            /\ agg.user_word.note = userWords[agg.user_word.id[1]].note

\* C16: after any sequence of upsert_word and upsert_user_word calls there is
\* one words row per canonical key and one user_words row per (user_id,
\* word_id); an upsert of a stored key returns the stored id, key and creation
\* time and changes only the text (tags and note of the association), and the
\* stored senses stay as they are
C16_UpsertIdempotent ==
    /\ []OneRowPerKey
    /\ [][/\ RowsKeepIdentity
          /\ RepeatedUpsertWord
          /\ \A c \in WordConns : CommitStoresPayload(c) /\ ReturnedAggregate(c)]_vars

\* an upsert_user_word of the stored word "a" of the first user has returned
\* its aggregate, with the new tags
C16_Witness ==
    /\ wordRet # NoCall
    /\ wordRet.call.op = "upsert_user_word"
    /\ wordRet.res.ok
    /\ wordRet.res.val.word.created_at = 0
    /\ wordRet.res.val.word.text = <<"A">>
    /\ wordRet.res.val.user_word.tags = <<<<"t">>>>
    /\ Len(wordRet.res.val.user_word.senses) = 1

WordEdgesTouching(user_id, word_id) ==
    {r \in wwEdges : /\ r.user_id = user_id
                     /\ r.start.word_id = word_id \/ r.end.word_id = word_id}

\* the SENSE_TO_WORD edges that leave a sense of the user word
SenseEdgesLeaving(user_word_id) ==
    {r \in swEdges : \E s \in DOMAIN userSenses :
                        /\ userSenses[s].user_word_id = user_word_id
                        /\ r.start.sense_id = s}

\* C18: when remove_from_my_network returns Ok, no WORD_TO_WORD edge of the
\* user touches the word, whichever endpoint the word is, and no SENSE_TO_WORD
\* edge leaves a sense of the word; the user_words row is deleted only after
\* the graph deletions have succeeded
C18_RemovedWordHasNoLinks ==
    (svc.pc # "idle" /\ svc.call.op = "remove_from_my_network") =>
        LET user_id == svc.call.user_id
            user_word_id == svc.call.user_word_id
            word_id == SvcUserWords[user_word_id].word_id
        IN  /\ (svc.pc = "returned" /\ svc.res.ok) =>
                  /\ WordEdgesTouching(user_id, word_id) = {}
                  /\ SenseEdgesLeaving(user_word_id) = {}
            /\ user_word_id \notin DOMAIN userWords => (svc.pc = "returned" /\ svc.res.ok)

\* C19: in no reachable state is the user_senses row of a sense gone while
\* SENSE_TO_WORD edges of that sense still exist
C19_NoEdgesOfRemovedSense ==
    \A s \in DOMAIN SvcUserSenses :
        s \notin DOMAIN userSenses => {r \in swEdges : r.start.sense_id = s} = {}

\* the user word of the sense transactions, read back through find_user_word:
\* its word and its user_words row are those of the service fixtures
SenseTextsClash ==
    \E i, j \in DOMAIN userSenses :
        /\ i # j
        /\ userSenses[i].user_word_id = userSenses[j].user_word_id
        /\ EqIgnoreAsciiCase(userSenses[i].text, userSenses[j].text)

FindsUserWordOfSenses ==
    \A user_word_id \in SqlUserWords :
        \A res \in find_user_word(SvcWordsTable, SvcUserWords, userSenses,
                                  UserWordOwner(user_word_id), user_word_id) :
            res.ok

\* C20: after any sequence of add_user_sense and update_user_sense calls, no two
\* user_senses rows of one user word have texts equal ignoring case, so
\* find_user_word on that word succeeds
C20_SenseTextsStayUnique == ~SenseTextsClash /\ FindsUserWordOfSenses

\* transaction t carries a call of update_user_sense or remove_user_sense by a
\* user who does not own the word of the sense the call names
ByNonOwner(call) ==
    /\ call.op \in {"update_user_sense", "remove_user_sense"}
    /\ call.sense_id \in DOMAIN userSenses
    /\ UserWordOwner(userSenses[call.sense_id].user_word_id) # call.user_id

NonOwnerReturns(t) ==
    /\ txn[t].pc = "idle"
    /\ txn'[t].pc # "idle"
    /\ ByNonOwner(txn'[t].call)

\* C21: update_user_sense and remove_user_sense called by a user who does not
\* own the word of the sense return an error in the step that starts them and
\* leave every user_senses row, committed or written in a transaction, unchanged
C21_NonOwnerChangesNothing ==
    [][\A t \in SqlTxns :
           NonOwnerReturns(t) =>
               /\ txn'[t].pc = "done"
               /\ ~txn'[t].ret.ok
               /\ userSenses' = userSenses
               /\ sqlWrites' = sqlWrites]_vars

C21_Witness ==
    \E t \in SqlTxns : \E o \in SqlTxns \ {t} :
        /\ txn[t].pc = "done" /\ txn[o].pc = "done"
        /\ txn[t].call.op = "update_user_sense" /\ txn[t].call.user_id = 2
        /\ txn[t].call.update.is_primary = Some(TRUE)
        /\ txn[o].call.op = "remove_user_sense" /\ txn[o].call.user_id = 2
        /\ ~txn[t].ret.ok /\ ~txn[o].ret.ok
        /\ DOMAIN userSenses = {1, 2}

\* what a create call with this note must leave in the edge: the matched edge
\* with the note replaced when one is given, or a new edge with the note and
\* the time of the call
LinkAfterCreate(old, new, note, now) ==
    IF old = {}
    THEN \E r \in new : r.note = note /\ r.created_at = now
    ELSE \E q \in old : \E r \in new :
             /\ r.id = q.id
             /\ r.created_at = q.created_at
             /\ r.note = IF note = None THEN q.note ELSE note

\* C22: a create call on an existing word link or sense-word link leaves the
\* stored note unchanged when its note is null and replaces it when the note is
\* not null, and keeps created_at in both cases; a first creation stores the
\* note and the time of the call
C22_CreateKeepsOrReplacesNote ==
    /\ \A a \in GFewWords, b \in GFewWords, k \in WordLinkKinds, n \in LinkNotes :
           \A o \in create_word_link(1, a, b, k, n) :
               a # b =>
               /\ o.ret.ok
               /\ o.ret.val.note = IF n = None /\ EdgesBetween(wwEdges, 1, k, a, b) # {}
                                   THEN (CHOOSE q \in EdgesBetween(wwEdges, 1, k, a, b) : TRUE).note
                                   ELSE n
               /\ Cardinality(EdgesBetween(o.wwEdges, 1, k, a, b)) = 1
               /\ LinkAfterCreate(EdgesBetween(wwEdges, 1, k, a, b),
                                  EdgesBetween(o.wwEdges, 1, k, a, b), n, relCount + 1)
    /\ \A s \in GSenses, src \in GFewWords, t \in GFewWords,
          k \in SenseWordLinkKinds, n \in LinkNotes :
           \A o \in create_sense_word_link(1, s, src, t, k, n) :
               src # t =>
               /\ Cardinality(MatchSenseWordLink(o.swEdges, s, 1, t, k)) = 1
               /\ LinkAfterCreate(MatchSenseWordLink(swEdges, s, 1, t, k),
                                  MatchSenseWordLink(o.swEdges, s, 1, t, k), n, relCount + 1)

\* a word link created with one note and a sense-word link created with no note
\* were both created again with another note, and the word link once more with
\* a null note
C22_Witness ==
    /\ gRet.op = "create_word_link" /\ gRet.res.ok
    /\ gRet.res.val.note = Some("m")
    /\ \E r \in wwEdges : r.id = 1 /\ r.created_at = 1 /\ r.note = Some("m")
    /\ \E r \in swEdges : r.id = 2 /\ r.created_at = 2 /\ r.note = Some("n")
    /\ relCount = 2

\* C23: in every reachable graph delete_word_link(u, a, b, k) with a # b returns
\* Ok, removes the edges of user u and kind k between a and b given either way
\* round (the edge create_word_link(u, a, b, k) or create_word_link(u, b, a, k)
\* leaves is one of them), changes nothing when there is none, so that a second
\* call changes nothing, and leaves every other edge and every node as it was
C23_DeleteWordLinkExact ==
    \A u \in GUsers, a \in GWords, b \in GWords, k \in WordLinkKinds :
        a # b =>
            LET o == delete_word_link(u, a, b, k)
                between == EdgesBetween(wwEdges, u, k, a, b)
            IN  /\ o.ret = Ok(Unit)
                /\ o = delete_word_link(u, b, a, k)
                /\ o.wwEdges = wwEdges \ between
                /\ EdgesBetween(o.wwEdges, u, k, a, b) = {}
                /\ between = {} => o = GraphUntouched(Ok(Unit))
                /\ o.wordNodes = wordNodes /\ o.senseNodes = senseNodes
                /\ o.swEdges = swEdges /\ o.relCount = relCount
                /\ \A n \in GNotes : \A c \in create_word_link(u, a, b, k, n) :
                       \E r \in EdgesBetween(c.wwEdges, u, k, a, b) :
                           /\ r.id = c.ret.val.link_id
                           /\ r.start.word_id < r.end.word_id

\* a delete_word_link returned Ok after two edges were created: the edge it
\* named is gone, the other edge and the nodes are there
C23_Witness ==
    /\ ReturnedOk("delete_word_link")
    /\ relCount = 2
    /\ Cardinality(wwEdges) = 1
    /\ Cardinality(wordNodes) >= 2

\* the senses of a returned aggregate whose text is the text of the input's
\* first sense
FirstSenseCopies(call, aggregate) ==
    {k \in DOMAIN aggregate.user_word.senses :
        aggregate.user_word.senses[k].text = Trim(call.input.first_sense[1].text)}

\* C24: an invocation of add_to_my_network that repeats an earlier one (same
\* user, same input), run with both backends answering, returns Ok, with the
\* user word id of the earlier invocation when that one succeeded, and with an
\* aggregate that holds the text of first_sense exactly once
C24_AddToMyNetworkReplayable ==
    \A i, j \in DOMAIN svc.done :
        (i < j /\ svc.done[i].call = svc.done[j].call /\ ~svc.done[j].failed) =>
            LET first == svc.done[i]
                again == svc.done[j]
            IN  /\ again.res.ok
                /\ first.res.ok => again.res.val.user_word.id = first.res.val.user_word.id
                /\ again.call.input.first_sense # None =>
                       Cardinality(FirstSenseCopies(again.call, again.res.val)) = 1

SortedBySortOrder ==
    \A i, j \in 1..Len(senses) : i < j => senses[i].sort_order <= senses[j].sort_order

\* the same sense, whatever its primary flag
SameSense(s, t) == [s EXCEPT !.is_primary = FALSE] = [t EXCEPT !.is_primary = FALSE]

\* after is before with x put in at pos, the other senses keeping their order
InsertedAt(before, after, pos, x) ==
    /\ Len(after) = Len(before) + 1
    /\ after[pos] = x
    /\ \A i \in 1..(pos - 1) : SameSense(after[i], before[i])
    /\ \A i \in (pos + 1)..Len(after) : SameSense(after[i], before[i - 1])

\* a successful add_sense puts the sense, its sentinel sort_order read as 0,
\* behind the senses of a lower or equal sort_order and before those of a higher
AddsInOrder ==
    (domCall'.op = "add_sense" /\ domRet'.ok) =>
        LET x == [domCall'.arg EXCEPT !.sort_order = IF @ = I32_MIN THEN 0 ELSE @] IN
        \E pos \in 1..Len(senses') :
            /\ InsertedAt(senses, senses', pos, x)
            /\ \A i \in 1..(pos - 1) : senses'[i].sort_order <= x.sort_order
            /\ \A i \in (pos + 1)..Len(senses') : senses'[i].sort_order > x.sort_order

\* a successful remove_sense_by_id takes one sense out and keeps the order
RemovesInOrder ==
    (domCall'.op = "remove_sense_by_id" /\ domRet'.ok) =>
        \E pos \in 1..Len(senses) : InsertedAt(senses', senses, pos, domRet'.val)

\* C25: the senses of a UserWord are always sorted ascending by sort_order and
\* none has the int32 minimum as sort_order; add_sense stores that sentinel as
\* 0 and puts a sense behind the earlier senses of equal sort_order, and
\* remove_sense_by_id keeps the order of the remaining senses
C25_SensesSortedStable ==
    /\ [](SortedBySortOrder /\ \A i \in 1..Len(senses) : senses[i].sort_order # I32_MIN)
    /\ [][AddsInOrder /\ RemovesInOrder]_vars

\* a sense added with the sentinel sort_order stands, with sort_order 0, behind
\* a sense of sort_order 0 added before it
C25_Witness ==
    /\ domCall.op = "add_sense" /\ domRet # Pending /\ domRet.ok
    /\ domCall.arg.sort_order = I32_MIN
    /\ Len(senses) = 2
    /\ senses[1].sort_order = 0 /\ senses[2].sort_order = 0
    /\ senses[2].text = domCall.arg.text

\* C26: for every text CanonicalKey::new succeeds exactly when canonicalize
\* succeeds and then holds the string canonicalize returns; a CanonicalKey
\* holds no whitespace character
C26_KeyIsCanonicalize ==
    (canonOut # Pending /\ keyOut # Pending) =>
        /\ keyOut.ok = canonOut.ok
        /\ keyOut.ok => /\ keyOut.val = canonOut.val
                        /\ \A i \in 1..Len(keyOut.val) : keyOut.val[i] \notin Whitespace

EdgesOfSense(sense_id) == {r \in swEdges : r.start.sense_id = sense_id}

\* C27: a remove_sense invoked again after the graph step of the first
\* invocation failed, both backends answering, returns Ok, and then the
\* user_senses row of the sense is gone and no SENSE_TO_WORD edge leaves it
C27_RemoveSenseRetryCompletes ==
    (/\ svc.pc = "returned"
     /\ svc.call.op = "remove_sense"
     /\ "attempt" \in DOMAIN svc.call
     /\ svc.res # Err("Graph")) =>
        /\ svc.res.ok
        /\ svc.call.sense_id \notin DOMAIN userSenses
        /\ EdgesOfSense(svc.call.sense_id) = {}

\* C28: a set_primary_by_id that fails with SenseNotFound and a
\* set_primary_by_index that fails with SenseIndexOutOfBounds leave the senses
\* of the aggregate, with their primary flags, as they were
C28_FailedSetPrimaryChangesNothing ==
    [][(/\ domCall'.op \in {"set_primary_by_id", "set_primary_by_index"}
        /\ ~domRet'.ok
        /\ domRet'.err \in {"SenseNotFound", "SenseIndexOutOfBounds"}) =>
           senses' = senses]_vars

\* what the operation returns for what run_with_timeout returned: the lists
\* return the parsed rows, the creates the record of one row and InvalidData
\* when there is none
OperationReturns(op, ret) ==
    IF ~ret.ok THEN ret
    ELSE IF op \in {"create_word_link", "create_sense_word_link"} /\ ret.val.rows = 0
    THEN Err("InvalidData")
    ELSE ret

\* C29: when fetching a row fails after the query started, list_word_links,
\* list_sense_word_links, create_word_link and create_sense_word_link return an
\* error, never Ok with the rows fetched before the failure
C29_FetchFailureIsAnError ==
    (/\ rwt.pc = "returned"
     /\ rwt.cause = "backend_failure"
     /\ rwt.op \in {"list_word_links", "list_sense_word_links",
                    "create_word_link", "create_sense_word_link"}) =>
        ~OperationReturns(rwt.op, rwt.ret).ok

OnlyText(update) ==
    /\ update.text # None
    /\ update.is_primary = None /\ update.sort_order = None /\ update.note = None

OnlyNoteOrSortOrder(update) ==
    /\ update.text = None /\ update.is_primary = None
    /\ update.sort_order # None \/ update.note # None

UpdatedOk(t) ==
    /\ txn[t].pc = "done"
    /\ txn[t].call.op = "update_user_sense"
    /\ txn[t].ret.ok

\* C30: when two update_user_sense calls on one sense, one setting only the
\* text and the other only the note or the sort_order, have both committed,
\* the row holds the text of the first and the note and sort_order of the second
C30_DisjointUpdatesBothTakeEffect ==
    \A t \in SqlTxns : \A o \in SqlTxns \ {t} :
        (/\ UpdatedOk(t) /\ UpdatedOk(o)
         /\ txn[t].call.sense_id = txn[o].call.sense_id
         /\ OnlyText(txn[t].call.update)
         /\ OnlyNoteOrSortOrder(txn[o].call.update)) =>
            LET row == userSenses[txn[t].call.sense_id]
                set == txn[o].call.update
            IN  /\ row.text = txn[t].call.update.text[1]
                /\ set.note # None => row.note = set.note[1]
                /\ set.sort_order # None => row.sort_order = set.sort_order[1]

=============================================================================
